---------------------------- MODULE Spec2Model ----------------------------
(***************************************************************************)
(* A model of the PDF question-answering agent: the question pipeline      *)
(* Router -> Fetch -> (Error-Correction <-> Fetch) -> Answer generator of  *)
(* src/src/agent/graph.py, the page fetch tool, the section indexer with   *)
(* its summary cache, and the gateway client of src/src/llm/client.py.     *)
(*                                                                         *)
(* Texts (model responses, prompts) are TLA+ strings, read character by    *)
(* character with SubSeq.  Python's None is the value None.                *)
(***************************************************************************)
EXTENDS Integers, Sequences, FiniteSets, TLC

VARIABLES
    settings,          \* the process-wide Settings object (settings.py)
    metadata,          \* PDFQAAgent.metadata, from PDFProcessor.get_pdf_metadata
    section_summaries, \* PDFQAAgent._section_summaries (None until indexed)
    cache_file,        \* the summary cache record on disk for this pdf_path
    state,             \* the PDFQAState of the question in flight
    pc,                \* where the agent is: a graph node about to run, or an end
    hist,              \* observation: what the current run has executed so far
    asked,             \* number of ask() calls started on this agent
    fx,                \* PageFetcherTool.fetch_pages stepwise: its locals
    ix,                \* the indexing workflow: its locals and observations
    gx                 \* one gateway request: its attempts and what it came to

vars == <<settings, metadata, section_summaries, cache_file, state, pc, hist,
          asked, fx, ix, gx>>

None == "None"

-----------------------------------------------------------------------------
(* Bounds of the model. *)

\* documents have 1..MaxPages pages
MaxPages == 3
\* settings.chunk_size ranges over 1..MaxChunk
MaxChunk == 2
\* ask() calls per agent
MaxQuestions == 2
\* length of the page lists handed to fetch_pages alone
MaxFetchLen == 2
\* index_pdf() calls in all
MaxIndexCalls == 2

-----------------------------------------------------------------------------
(* Characters and texts. *)

Ch(s, i) == SubSeq(s, i, i)

DigitChars == "0123456789"
UpperChars == "ABCDEFGHIJKLMNOPQRSTUVWXYZ"
LowerChars == "abcdefghijklmnopqrstuvwxyz"
\* The en dash U+2013 of the router's range pattern is written "~" here.
EnDash == "~"

CharsOf(s) == {Ch(s, i) : i \in 1..Len(s)}
IsDigit(c) == c \in CharsOf(DigitChars)
IsSpace(c) == c \in {" ", "\n", "\t"}
IsWordChar(c) == c \in CharsOf(DigitChars) \cup CharsOf(UpperChars)
                         \cup CharsOf(LowerChars) \cup {"_"}

DigitVal(c) == (CHOOSE i \in 1..10 : Ch(DigitChars, i) = c) - 1

\* int(s) for a non-empty string of digits
RECURSIVE StrToInt(_)
StrToInt(s) ==
    IF s = "" THEN 0
    ELSE StrToInt(SubSeq(s, 1, Len(s) - 1)) * 10 + DigitVal(Ch(s, Len(s)))

\* str.isdigit()
IsDigitStr(s) == s # "" /\ \A i \in 1..Len(s) : IsDigit(Ch(s, i))

LowerChar(c) ==
    IF c \in CharsOf(UpperChars)
    THEN Ch(LowerChars, CHOOSE i \in 1..26 : Ch(UpperChars, i) = c)
    ELSE c

\* str.lower()
RECURSIVE Lower(_)
Lower(s) == IF s = "" THEN "" ELSE LowerChar(Ch(s, 1)) \o Lower(Tail(s))

\* first index >= i of s that holds no whitespace / digit / list character
RECURSIVE SkipSpaces(_, _)
SkipSpaces(s, i) ==
    IF i <= Len(s) /\ IsSpace(Ch(s, i)) THEN SkipSpaces(s, i + 1) ELSE i

RECURSIVE SkipDigits(_, _)
SkipDigits(s, i) ==
    IF i <= Len(s) /\ IsDigit(Ch(s, i)) THEN SkipDigits(s, i + 1) ELSE i

IsListChar(c) == IsDigit(c) \/ c = "," \/ IsSpace(c)

RECURSIVE SkipListChars(_, _)
SkipListChars(s, i) ==
    IF i <= Len(s) /\ IsListChar(Ch(s, i)) THEN SkipListChars(s, i + 1) ELSE i

StartsWithAt(s, i, w) ==
    i + Len(w) - 1 <= Len(s) /\ SubSeq(s, i, i + Len(w) - 1) = w

\* str.strip()
RECURSIVE Strip(_)
Strip(s) ==
    IF s = "" THEN ""
    ELSE IF IsSpace(Ch(s, 1)) THEN Strip(Tail(s))
    ELSE IF IsSpace(Ch(s, Len(s))) THEN Strip(SubSeq(s, 1, Len(s) - 1))
    ELSE s

\* str.replace(' ', ',')
RECURSIVE ReplaceSpaceByComma(_)
ReplaceSpaceByComma(s) ==
    IF s = "" THEN ""
    ELSE (IF Ch(s, 1) = " " THEN "," ELSE Ch(s, 1)) \o ReplaceSpaceByComma(Tail(s))

\* index of the first "," of s at or after i, Len(s)+1 when there is none
RECURSIVE FindComma(_, _)
FindComma(s, i) ==
    IF i <= Len(s) /\ Ch(s, i) # "," THEN FindComma(s, i + 1) ELSE i

\* str.split(','): the pieces between the commas, empty pieces included
RECURSIVE SplitComma(_)
SplitComma(s) ==
    LET k == FindComma(s, 1)
    IN  IF k > Len(s) THEN <<s>>
        ELSE <<SubSeq(s, 1, k - 1)>> \o SplitComma(SubSeq(s, k + 1, Len(s)))

\* [int(p.strip()) for p in pieces if p.strip().isdigit()]
RECURSIVE IntsOfPieces(_)
IntsOfPieces(pieces) ==
    IF pieces = <<>> THEN <<>>
    ELSE LET p == Strip(Head(pieces))
         IN  (IF IsDigitStr(p) THEN <<StrToInt(p)>> ELSE <<>>)
                 \o IntsOfPieces(Tail(pieces))

\* re.findall(r'\b\d+\b', s), from index i on: the maximal digit runs that
\* touch no word character on either side
RECURSIVE FindNumbers(_, _)
FindNumbers(s, i) ==
    IF i > Len(s) THEN <<>>
    ELSE IF IsDigit(Ch(s, i)) /\ (i = 1 \/ ~IsWordChar(Ch(s, i - 1)))
    THEN LET j == SkipDigits(s, i)
         IN  (IF j > Len(s) \/ ~IsWordChar(Ch(s, j))
              THEN <<SubSeq(s, i, j - 1)>> ELSE <<>>) \o FindNumbers(s, j)
    ELSE FindNumbers(s, i + 1)

\* range(a, b + 1) as a list
Range(a, b) == [i \in 1..(IF b >= a THEN b - a + 1 ELSE 0) |-> a + i - 1]

Min(a, b) == IF a <= b THEN a ELSE b

\* lst[:n] for n >= 0
Take(lst, n) == SubSeq(lst, 1, Min(n, Len(lst)))

\* fault variant: the range filter left out
ValidPages_unfiltered(pages, total_pages) == pages

\* [p for p in pages if 1 <= p <= total_pages]
RECURSIVE ValidPages(_, _)
ValidPages(pages, total_pages) ==
    IF pages = <<>> THEN <<>>
    ELSE (IF 1 <= Head(pages) /\ Head(pages) <= total_pages
          THEN <<Head(pages)>> ELSE <<>>) \o ValidPages(Tail(pages), total_pages)

SeqContains(lst, x) == \E i \in 1..Len(lst) : lst[i] = x

-----------------------------------------------------------------------------
(* Page-number extraction from model text: router_node and parse_page_list. *)

NoMatch == [matched |-> FALSE]

\* after "page" at i: the optional "s" of  pages?
AfterPages(s, i) == IF i + 4 <= Len(s) /\ Ch(s, i + 4) = "s" THEN i + 5 ELSE i + 4

\* pages?\s*(\d+)\s*[-~]\s*(\d+)  matched at index i
RangeMatchAt(s, i) ==
    IF ~StartsWithAt(s, i, "page") THEN NoMatch
    ELSE LET c == SkipSpaces(s, AfterPages(s, i))
             d == SkipDigits(s, c)
             e == SkipSpaces(s, d)
             g == SkipSpaces(s, e + 1)
             h == SkipDigits(s, g)
         IN  IF d > c /\ e <= Len(s) /\ Ch(s, e) \in {"-", EnDash} /\ h > g
             THEN [matched |-> TRUE, g1 |-> SubSeq(s, c, d - 1),
                   g2 |-> SubSeq(s, g, h - 1)]
             ELSE NoMatch

\* pages?\s*([\d,\s]+)  matched at index i; when the whitespace run is followed
\* by no list character, \s* gives its last character back to the group
ListMatchAt(s, i) ==
    IF ~StartsWithAt(s, i, "page") THEN NoMatch
    ELSE LET b == AfterPages(s, i)
             c == SkipSpaces(s, b)
             d == SkipListChars(s, c)
         IN  IF d > c THEN [matched |-> TRUE, g1 |-> SubSeq(s, c, d - 1)]
             ELSE IF c > b THEN [matched |-> TRUE, g1 |-> SubSeq(s, c - 1, c - 1)]
             ELSE NoMatch

\* page\s*(\d+)  matched at index i
SingleMatchAt(s, i) ==
    IF ~StartsWithAt(s, i, "page") THEN NoMatch
    ELSE LET c == SkipSpaces(s, i + 4)
             d == SkipDigits(s, c)
         IN  IF d > c THEN [matched |-> TRUE, g1 |-> SubSeq(s, c, d - 1)]
             ELSE NoMatch

\* re.search: the match at the leftmost index that has one
RECURSIVE RangeSearch(_, _)
RangeSearch(s, i) ==
    IF i > Len(s) THEN NoMatch
    ELSE IF RangeMatchAt(s, i).matched THEN RangeMatchAt(s, i)
    ELSE RangeSearch(s, i + 1)

RECURSIVE ListSearch(_, _)
ListSearch(s, i) ==
    IF i > Len(s) THEN NoMatch
    ELSE IF ListMatchAt(s, i).matched THEN ListMatchAt(s, i)
    ELSE ListSearch(s, i + 1)

RECURSIVE SingleSearch(_, _)
SingleSearch(s, i) ==
    IF i > Len(s) THEN NoMatch
    ELSE IF SingleMatchAt(s, i).matched THEN SingleMatchAt(s, i)
    ELSE SingleSearch(s, i + 1)

\* router_node, lines 263-281: the first of the three patterns that matches
RouterCandidatePages(response) ==
    LET low == Lower(response)
        range_match == RangeSearch(low, 1)
        list_match == ListSearch(low, 1)
        single_match == SingleSearch(low, 1)
    IN  IF range_match.matched
        THEN Range(StrToInt(range_match.g1), StrToInt(range_match.g2))
        ELSE IF list_match.matched
        THEN IntsOfPieces(SplitComma(ReplaceSpaceByComma(list_match.g1)))
        ELSE IF single_match.matched
        THEN <<StrToInt(single_match.g1)>>
        ELSE <<>>

\* router_node, lines 287-292: the in-range numbers of the response, each once
RECURSIVE FallbackNumbers(_, _, _)
FallbackNumbers(numbers, total_pages, acc) ==
    IF numbers = <<>> THEN acc
    ELSE LET n == StrToInt(Head(numbers))
         IN  FallbackNumbers(Tail(numbers), total_pages,
                 IF 1 <= n /\ n <= total_pages /\ ~SeqContains(acc, n)
                 THEN Append(acc, n) ELSE acc)

\* list(range(1, min(chunk_size + 1, total_pages + 1)))
FirstChunk(md) == Range(1, Min(md.chunk_size + 1, md.total_pages + 1) - 1)

RouterMaxPages == 20

\* the length of a digit string without its leading zeros
RECURSIVE SignificantDigits(_)
SignificantDigits(s) ==
    IF s = "" THEN 0
    ELSE IF Ch(s, 1) = "0" THEN SignificantDigits(Tail(s))
    ELSE Len(s)

\* router_node, lines 272-274: Python's int() takes a literal of any length, and
\* list(range(start, end + 1)) raises OverflowError or MemoryError when the
\* range runs from a start of at most eighteen digits to an end of twenty or more
RouterParseRaises(response) ==
    LET range_match == RangeSearch(Lower(response), 1)
    IN  /\ range_match.matched
        /\ SignificantDigits(range_match.g2) >= 20
        /\ SignificantDigits(range_match.g1) <= 18

\* router_node, lines 258-299: the pages stored for a model response
RouterPages(response, md) ==
    LET validated == ValidPages(RouterCandidatePages(response), md.total_pages)
        numbers == IF validated = <<>>
                   THEN FallbackNumbers(FindNumbers(response, 1), md.total_pages, <<>>)
                   ELSE validated
        pages == IF numbers = <<>> THEN FirstChunk(md) ELSE numbers
    IN  Take(pages, RouterMaxPages)

\* index of the first character c of s at or after i, Len(s)+1 when none
RECURSIVE FindChar(_, _, _)
FindChar(s, c, i) ==
    IF i <= Len(s) /\ Ch(s, i) # c THEN FindChar(s, c, i + 1) ELSE i

\* \[([\d\s,]+)\]  searched from index i on
RECURSIVE BracketSearch(_, _)
BracketSearch(s, i) ==
    LET k == FindChar(s, "[", i)
        d == SkipListChars(s, k + 1)
    IN  IF k > Len(s) THEN NoMatch
        ELSE IF d > k + 1 /\ d <= Len(s) /\ Ch(s, d) = "]"
        THEN [matched |-> TRUE, g1 |-> SubSeq(s, k + 1, d - 1)]
        ELSE BracketSearch(s, k + 1)

PageNumberLimit == 1000

\* [int(n) for n in numbers if int(n) < 1000]
RECURSIVE SmallInts(_)
SmallInts(numbers) ==
    IF numbers = <<>> THEN <<>>
    ELSE (IF StrToInt(Head(numbers)) < PageNumberLimit
          THEN <<StrToInt(Head(numbers))>> ELSE <<>>) \o SmallInts(Tail(numbers))

parse_page_list(text) ==
    LET list_match == BracketSearch(text, 1)
    IN  IF list_match.matched
        THEN IntsOfPieces(SplitComma(list_match.g1))
        ELSE SmallInts(FindNumbers(text, 1))

-----------------------------------------------------------------------------
(* The gateway client: GLMClient of src/src/llm/client.py. *)

\* What one network attempt can come to: a completion, a 429, a 5xx, another
\* 4xx, or a timeout / transport error raised by the HTTP client.
HttpOutcomes == {"ok", "429", "5xx", "4xx", "transport"}

GatewayRetries == 3

\* Fault variant of the backoff: the delay grows by one second per retry.
Pow2_linear(n) == n + 1

\* 2 ** n
RECURSIVE Pow2(_)
Pow2(n) == IF n = 0 THEN 1 ELSE 2 * Pow2(n - 1)

GatewayOk(attempt, delays) ==
    [ok |-> TRUE, error |-> None, attempts |-> attempt + 1, delays |-> delays]

GatewayRaise(error, attempt, delays) ==
    [ok |-> FALSE, error |-> error, attempts |-> attempt + 1, delays |-> delays]

\* generate_text_async, lines 232-257: the retry loop, from attempt on;
\* outs[k] is what the k-th network attempt comes to
RECURSIVE TextAttempt(_, _, _)
TextAttempt(outs, attempt, delays) ==
    LET o == outs[attempt + 1]
    IN  CASE o = "ok" -> GatewayOk(attempt, delays)
          [] o = "429" ->
                IF attempt = GatewayRetries
                THEN GatewayRaise("Rate limit exceeded", attempt, delays)
                ELSE TextAttempt(outs, attempt + 1, Append(delays, Pow2(attempt)))
          [] o = "5xx" ->
                IF attempt < GatewayRetries
                THEN TextAttempt(outs, attempt + 1, Append(delays, Pow2(attempt)))
                ELSE GatewayRaise("Server error", attempt, delays)
          [] o = "4xx" -> GatewayRaise("Client error", attempt, delays)
          [] OTHER -> GatewayRaise("Transport error", attempt, delays)

\* Fault variant of generate_text_async: the loop allows one retry more.
RECURSIVE TextAttemptExtra(_, _, _)
TextAttemptExtra(outs, attempt, delays) ==
    LET o == outs[attempt + 1]
    IN  CASE o = "ok" -> GatewayOk(attempt, delays)
          [] o = "429" ->
                IF attempt = GatewayRetries + 1
                THEN GatewayRaise("Rate limit exceeded", attempt, delays)
                ELSE TextAttemptExtra(outs, attempt + 1, Append(delays, Pow2(attempt)))
          [] o = "5xx" ->
                IF attempt < GatewayRetries + 1
                THEN TextAttemptExtra(outs, attempt + 1, Append(delays, Pow2(attempt)))
                ELSE GatewayRaise("Server error", attempt, delays)
          [] o = "4xx" -> GatewayRaise("Client error", attempt, delays)
          [] OTHER -> GatewayRaise("Transport error", attempt, delays)

generate_text_async_extra_retry(outs) == TextAttemptExtra(outs, 0, <<>>)

\* Fault variant of generate_text_async: every HTTP error status is retried,
\* not only those from 500 on.
RECURSIVE TextAttemptAnyStatus(_, _, _)
TextAttemptAnyStatus(outs, attempt, delays) ==
    LET o == outs[attempt + 1]
    IN  CASE o = "ok" -> GatewayOk(attempt, delays)
          [] o = "429" ->
                IF attempt = GatewayRetries
                THEN GatewayRaise("Rate limit exceeded", attempt, delays)
                ELSE TextAttemptAnyStatus(outs, attempt + 1,
                         Append(delays, Pow2(attempt)))
          [] o \in {"5xx", "4xx"} ->
                IF attempt < GatewayRetries
                THEN TextAttemptAnyStatus(outs, attempt + 1,
                         Append(delays, Pow2(attempt)))
                ELSE GatewayRaise(IF o = "5xx" THEN "Server error" ELSE "Client error",
                                  attempt, delays)
          [] OTHER -> GatewayRaise("Transport error", attempt, delays)

generate_text_async_retry_any_status(outs) == TextAttemptAnyStatus(outs, 0, <<>>)

generate_text_async(outs) == TextAttempt(outs, 0, <<>>)

\* _make_request_with_retry, lines 102-125 (max_retries = 3), used by the
\* synchronous generate_with_image
RECURSIVE RequestAttempt(_, _, _)
RequestAttempt(outs, attempt, delays) ==
    LET o == outs[attempt + 1]
    IN  CASE o = "ok" -> GatewayOk(attempt, delays)
          [] o = "429" ->
                IF attempt = GatewayRetries
                THEN GatewayRaise("Rate limit exceeded", attempt, delays)
                ELSE RequestAttempt(outs, attempt + 1, Append(delays, Pow2(attempt)))
          [] o = "5xx" ->
                IF attempt < GatewayRetries
                THEN RequestAttempt(outs, attempt + 1, Append(delays, Pow2(attempt)))
                ELSE GatewayRaise("Server error", attempt, delays)
          [] o = "4xx" -> GatewayRaise("Client error", attempt, delays)
          [] OTHER -> GatewayRaise("Transport error", attempt, delays)

\* Fault variant of generate_with_image: a rate limit on the last attempt ends
\* the loop of _make_request_with_retry without raising, and None is returned.
RECURSIVE RequestAttemptFallsThrough(_, _, _)
RequestAttemptFallsThrough(outs, attempt, delays) ==
    LET o == outs[attempt + 1]
    IN  CASE o = "ok" -> GatewayOk(attempt, delays)
          [] o = "429" ->
                IF attempt = GatewayRetries
                THEN GatewayOk(attempt, delays)
                ELSE RequestAttemptFallsThrough(outs, attempt + 1,
                         Append(delays, Pow2(attempt)))
          [] o = "5xx" ->
                IF attempt < GatewayRetries
                THEN RequestAttemptFallsThrough(outs, attempt + 1,
                         Append(delays, Pow2(attempt)))
                ELSE GatewayRaise("Server error", attempt, delays)
          [] o = "4xx" -> GatewayRaise("Client error", attempt, delays)
          [] OTHER -> GatewayRaise("Transport error", attempt, delays)

generate_with_image_falls_through(outs) == RequestAttemptFallsThrough(outs, 0, <<>>)

generate_with_image(outs) == RequestAttempt(outs, 0, <<>>)

AttemptOutcomes == [1..(GatewayRetries + 1) -> HttpOutcomes]

\* what a caller sees of a gateway request: the text came, or str(e)
TextOutcomes ==
    {[ok |-> generate_text_async(o).ok, error |-> generate_text_async(o).error] :
        o \in AttemptOutcomes}

VisionOutcomes ==
    {[ok |-> generate_with_image(o).ok, error |-> generate_with_image(o).error] :
        o \in AttemptOutcomes}

-----------------------------------------------------------------------------
(* The page fetch tool: PageFetcherTool.fetch_pages. *)

\* str(n) for n >= 0
RECURSIVE IntToStr(_)
IntToStr(n) ==
    IF n < 10 THEN Ch(DigitChars, n + 1)
    ELSE IntToStr(n \div 10) \o Ch(DigitChars, (n % 10) + 1)

\* sep.join(strs)
RECURSIVE Join(_, _)
Join(strs, sep) ==
    IF strs = <<>> THEN ""
    ELSE IF Len(strs) = 1 THEN strs[1]
    ELSE strs[1] \o sep \o Join(Tail(strs), sep)

\* d[k] = v on a dict (a function on its keys)
DictSet(d, k, v) == [x \in DOMAIN d \cup {k} |-> IF x = k THEN v ELSE d[x]]

EmptyDict == [x \in {} |-> None]

\* What extract_page_content comes to for one call: the text with the page's
\* rendered image, the text alone (rendering failed inside it), or an exception.
ExtractOutcomes == {"text_image", "text", "fail"}

PageText(page_num) == "text of page " \o IntToStr(page_num)
PageImage(page_num) == "image of page " \o IntToStr(page_num)

RangeErrorText(page_num, total_pages) ==
    "Page " \o IntToStr(page_num) \o " out of range (1-" \o IntToStr(total_pages) \o ")"

FetchErrorText(page_num) ==
    "Error fetching page " \o IntToStr(page_num) \o ": extraction failed"

\* fetch_pages, lines 99-122: the loop from the i-th requested page on.
\* result.extracted lists the pages handed to the extraction collaborator.
RECURSIVE FetchLoop(_, _, _, _, _)
FetchLoop(page_numbers, total_pages, outcomes, i, result) ==
    IF i > Len(page_numbers) THEN result
    ELSE LET page_num == page_numbers[i]
         IN  IF page_num < 1 \/ page_num > total_pages
             THEN FetchLoop(page_numbers, total_pages, outcomes, i + 1,
                     [result EXCEPT !.errors =
                         Append(@, RangeErrorText(page_num, total_pages))])
             ELSE IF outcomes[i] = "fail"
             THEN FetchLoop(page_numbers, total_pages, outcomes, i + 1,
                     [result EXCEPT !.errors = Append(@, FetchErrorText(page_num)),
                                    !.extracted = Append(@, page_num)])
             ELSE FetchLoop(page_numbers, total_pages, outcomes, i + 1,
                     [result EXCEPT
                         !.texts = DictSet(@, page_num, PageText(page_num)),
                         !.fetched_pages = Append(@, page_num),
                         !.images = IF outcomes[i] = "text_image"
                                    THEN DictSet(@, page_num, <<PageImage(page_num)>>)
                                    ELSE @,
                         !.extracted = Append(@, page_num)])

\* Fault variant of fetch_pages: all-or-nothing, the first failing entry ends
\* the request.
fetch_pages_aborting(page_numbers, md, outcomes) ==
    LET failing == {i \in 1..Len(page_numbers) :
                       \/ page_numbers[i] < 1
                       \/ page_numbers[i] > md.total_pages
                       \/ outcomes[i] = "fail"}
        upto == IF failing = {} THEN Len(page_numbers)
                ELSE CHOOSE i \in failing : \A j \in failing : i <= j
    IN  FetchLoop(SubSeq(page_numbers, 1, upto), md.total_pages, outcomes, 1,
            [texts |-> EmptyDict, images |-> EmptyDict, errors |-> <<>>,
             fetched_pages |-> <<>>, extracted |-> <<>>])

fetch_pages(page_numbers, md, outcomes) ==
    FetchLoop(page_numbers, md.total_pages, outcomes, 1,
        [texts |-> EmptyDict, images |-> EmptyDict, errors |-> <<>>,
         fetched_pages |-> <<>>, extracted |-> <<>>])

-----------------------------------------------------------------------------
(* The nodes of the question graph. *)

\* ask(), lines 649-663
InitialState ==
    [predicted_pages |-> <<>>, router_confidence |-> 0, fetched_pages |-> <<>>,
     page_texts |-> EmptyDict, page_images |-> EmptyDict, fetch_error |-> None,
     retry_count |-> 0, answer |-> "", sources |-> <<>>]

\* fault variant: the retry counter of the previous question is carried over
initial_state_keeps_retry_count(st) ==
    [InitialState EXCEPT !.retry_count = st.retry_count]

\* ask(), lines 649-663: the state a question starts with, a dict literal that
\* reads nothing of st, the state the previous question left
initial_state(st) == InitialState

\* Python truthiness of an Optional[str]
Truthy(x) == x # None /\ x # ""

\* getattr on the Settings object: the class declares no router_max_sections
\* field, so the attribute exists only when supplied as an extra ("str": read
\* from the .env file, "int": set on the object).
HasRouterMaxSections(cfg) == cfg.router_max_sections.kind # "absent"

\* router_node, lines 234-239
SectionsForRouter(sections, max_sections) ==
    IF max_sections > 0 THEN Take(sections, max_sections) ELSE sections

\* router_node; confidence is in tenths.  Returns the exception raised (None
\* when it returns), the new state and the number of sections put in the prompt.
router_node(st, md, sections, cfg, gw, response) ==
    IF ~HasRouterMaxSections(cfg)
    THEN [raised |-> "AttributeError", state |-> st, sections |-> 0]
    ELSE IF cfg.router_max_sections.kind = "str"
    THEN [raised |-> "TypeError", state |-> st, sections |-> 0]
    ELSE IF gw.ok /\ ~RouterParseRaises(response)
    THEN [raised |-> None,
          state |-> [st EXCEPT !.predicted_pages = RouterPages(response, md),
                               !.router_confidence = 8],
          sections |-> Len(SectionsForRouter(sections, cfg.router_max_sections.value))]
    ELSE [raised |-> None,
          state |-> [st EXCEPT !.predicted_pages = FirstChunk(md),
                               !.router_confidence = 1],
          sections |-> Len(SectionsForRouter(sections, cfg.router_max_sections.value))]

\* Fault variant of fetcher_node: the texts and images of the fetch are merged
\* into those of the earlier attempts.
fetcher_node_merging(st, md, outcomes) ==
    LET result == fetch_pages(st.predicted_pages, md, outcomes)
    IN  [st EXCEPT !.fetched_pages = result.fetched_pages,
                   !.page_texts = [p \in DOMAIN @ \cup DOMAIN result.texts |->
                                      IF p \in DOMAIN result.texts
                                      THEN result.texts[p] ELSE @[p]],
                   !.page_images = [p \in DOMAIN @ \cup DOMAIN result.images |->
                                       IF p \in DOMAIN result.images
                                       THEN result.images[p] ELSE @[p]],
                   !.fetch_error = IF result.errors # <<>>
                                   THEN Join(result.errors, "; ") ELSE None]

\* fetcher_node
fetcher_node(st, md, outcomes) ==
    LET result == fetch_pages(st.predicted_pages, md, outcomes)
    IN  [st EXCEPT !.fetched_pages = result.fetched_pages,
                   !.page_texts = result.texts,
                   !.page_images = result.images,
                   !.fetch_error = IF result.errors # <<>>
                                   THEN Join(result.errors, "; ") ELSE None]

MaxRetries == 3

\* Fault variant of should_correct: the ceiling is taken one retry early.
should_correct_early(st) ==
    IF Truthy(st.fetch_error) /\ st.retry_count < MaxRetries - 1
    THEN "error_correction" ELSE "answer_generator"

\* create_qa_graph.should_correct, lines 503-506
should_correct(st) ==
    IF Truthy(st.fetch_error) /\ st.retry_count < MaxRetries
    THEN "error_correction" ELSE "answer_generator"

\* Fault variant of error_correction_node: a failed gateway call leaves the
\* retry counter alone.
error_correction_node_keeps_count(st, md, gw, response) ==
    IF ~Truthy(st.fetch_error) \/ st.retry_count >= MaxRetries
    THEN [state |-> st, called |-> FALSE]
    ELSE IF gw.ok
    THEN LET valid_pages == ValidPages(parse_page_list(response), md.total_pages)
         IN  [state |-> [st EXCEPT
                  !.predicted_pages = IF valid_pages # <<>> THEN valid_pages ELSE <<1>>,
                  !.retry_count = st.retry_count + 1,
                  !.fetch_error = None],
              called |-> TRUE]
    ELSE [state |-> st, called |-> TRUE]

\* fault variant: the error of the failed fetch is kept
error_correction_node_keeps_error(st, md, gw, response) ==
    IF ~Truthy(st.fetch_error) \/ st.retry_count >= MaxRetries
    THEN [state |-> st, called |-> FALSE]
    ELSE IF gw.ok
    THEN LET valid_pages == ValidPages(parse_page_list(response), md.total_pages)
         IN  [state |-> [st EXCEPT
                  !.predicted_pages = IF valid_pages # <<>> THEN valid_pages ELSE <<1>>,
                  !.retry_count = st.retry_count + 1],
              called |-> TRUE]
    ELSE [state |-> [st EXCEPT !.retry_count = st.retry_count + 1], called |-> TRUE]

\* fault variant: a failed gateway call falls back to page 1 and clears the
\* error, as an unusable correction does
error_correction_node_falls_back(st, md, gw, response) ==
    IF ~Truthy(st.fetch_error) \/ st.retry_count >= MaxRetries
    THEN [state |-> st, called |-> FALSE]
    ELSE LET valid_pages == IF gw.ok
                            THEN ValidPages(parse_page_list(response), md.total_pages)
                            ELSE <<>>
         IN  [state |-> [st EXCEPT
                  !.predicted_pages = IF valid_pages # <<>> THEN valid_pages ELSE <<1>>,
                  !.retry_count = st.retry_count + 1,
                  !.fetch_error = None],
              called |-> TRUE]

\* fault variant: the valid pages of the correction are stored even when there
\* are none
error_correction_node_no_fallback(st, md, gw, response) ==
    IF ~Truthy(st.fetch_error) \/ st.retry_count >= MaxRetries
    THEN [state |-> st, called |-> FALSE]
    ELSE IF gw.ok
    THEN [state |-> [st EXCEPT
              !.predicted_pages = ValidPages(parse_page_list(response), md.total_pages),
              !.retry_count = st.retry_count + 1,
              !.fetch_error = None],
          called |-> TRUE]
    ELSE [state |-> [st EXCEPT !.retry_count = st.retry_count + 1], called |-> TRUE]

\* error_correction_node; called is whether the gateway was asked
error_correction_node(st, md, gw, response) ==
    IF ~Truthy(st.fetch_error) \/ st.retry_count >= MaxRetries
    THEN [state |-> st, called |-> FALSE]
    ELSE IF gw.ok
    THEN LET valid_pages == ValidPages(parse_page_list(response), md.total_pages)
         IN  [state |-> [st EXCEPT
                  !.predicted_pages = IF valid_pages # <<>> THEN valid_pages ELSE <<1>>,
                  !.retry_count = st.retry_count + 1,
                  !.fetch_error = None],
              called |-> TRUE]
    ELSE [state |-> [st EXCEPT !.retry_count = st.retry_count + 1], called |-> TRUE]

\* answer_generator_node, lines 351-354
RECURSIVE PageBlocks(_, _)
PageBlocks(fetched_pages, page_texts) ==
    IF fetched_pages = <<>> THEN <<>>
    ELSE <<"[Page " \o IntToStr(Head(fetched_pages)) \o "]\n"
               \o page_texts[Head(fetched_pages)]>>
             \o PageBlocks(Tail(fetched_pages), page_texts)

\* answer_generator_node, lines 361-383: the loop over the fetched pages from
\* the i-th on; vision[k] is what the k-th vision request comes to
RECURSIVE VisionLoop(_, _, _, _, _)
VisionLoop(fetched_pages, page_images, vision, i, acc) ==
    IF i > Len(fetched_pages) THEN acc
    ELSE LET page_num == fetched_pages[i]
         IN  IF page_num \in DOMAIN page_images /\ page_images[page_num] # <<>>
             THEN IF vision[Len(acc.vision_calls) + 1].ok
                  THEN [acc EXCEPT
                          !.vision_calls = Append(@, page_images[page_num][1]),
                          !.combined_text = @ \o "\n\n[Image Analysis from Page "
                              \o IntToStr(page_num) \o "]\nvision response"]
                  ELSE VisionLoop(fetched_pages, page_images, vision, i + 1,
                          [acc EXCEPT !.vision_calls =
                              Append(@, page_images[page_num][1])])
             ELSE VisionLoop(fetched_pages, page_images, vision, i + 1, acc)

\* Fault variant of answer_generator_node: the gateway's error leaves the node.
answer_generator_node_raises(st, vision, gw, response) ==
    IF gw.ok
    THEN [state |-> [st EXCEPT !.answer = response, !.sources = st.fetched_pages],
          raised |-> None, vision_calls |-> <<>>, combined_text |-> ""]
    ELSE [state |-> st, raised |-> gw.error, vision_calls |-> <<>>,
          combined_text |-> ""]

\* answer_generator_node
answer_generator_node(st, vision, gw, response) ==
    LET text == Join(PageBlocks(st.fetched_pages, st.page_texts), "\n\n---\n\n")
        has_images == \E p \in DOMAIN st.page_images : Len(st.page_images[p]) > 0
        start == [vision_calls |-> <<>>, combined_text |-> text]
        seen == IF has_images
                THEN VisionLoop(st.fetched_pages, st.page_images, vision, 1, start)
                ELSE start
    IN  [state |-> [st EXCEPT
             !.answer = IF gw.ok THEN response
                        ELSE "Error generating answer: " \o gw.error,
             !.sources = st.fetched_pages],
         raised |-> None,
         vision_calls |-> seen.vision_calls,
         combined_text |-> seen.combined_text]

-----------------------------------------------------------------------------
(* The response normalizer and the structured request: safe_parse_json and *)
(* GLMClient.generate_json_async.                                          *)
(*                                                                         *)
(* A model text is described by what the library calls safe_parse_json     *)
(* makes on it come to: whether it is blank, what json.loads gives on the  *)
(* whole text, on the content of a ```json fence, of a plain ``` fence and *)
(* on the first-"{"-to-last-"}" substring.  json.loads either returns a    *)
(* value, or raises json.JSONDecodeError (the text is not JSON), or raises *)
(* RecursionError (the text nests brackets deeper than the interpreter's   *)
(* recursion limit).                                                       *)

Unparsed == [parsed |-> FALSE, raised |-> FALSE]
Overflows == [parsed |-> FALSE, raised |-> TRUE]
Parsed(v) == [parsed |-> TRUE, raised |-> FALSE, value |-> v]
JsonDict(d) == [type |-> "dict", items |-> d]
JsonList == [type |-> "list"]

GoodSummary == [summary |-> <<"topic">>, keywords |-> <<"term">>, insights |-> <<>>]

GoodJsonText == [blank |-> FALSE, whole |-> Parsed(JsonDict(GoodSummary)),
                 fence_json |-> Unparsed, fence |-> Unparsed, braces |-> Unparsed]
FencedJsonText == [blank |-> FALSE, whole |-> Unparsed,
                   fence_json |-> Parsed(JsonDict(GoodSummary)),
                   fence |-> Unparsed, braces |-> Unparsed]
BracesJsonText == [blank |-> FALSE, whole |-> Unparsed, fence_json |-> Unparsed,
                   fence |-> Unparsed, braces |-> Parsed(JsonDict(GoodSummary))]
GarbageText == [blank |-> FALSE, whole |-> Unparsed, fence_json |-> Unparsed,
                fence |-> Unparsed, braces |-> Unparsed]
BlankText == [blank |-> TRUE, whole |-> Unparsed, fence_json |-> Unparsed,
              fence |-> Unparsed, braces |-> Unparsed]
ListJsonText == [blank |-> FALSE, whole |-> Parsed(JsonList), fence_json |-> Unparsed,
                 fence |-> Unparsed, braces |-> Unparsed]

DeepJsonText == [blank |-> FALSE, whole |-> Overflows, fence_json |-> Unparsed,
                 fence |-> Unparsed, braces |-> Unparsed]

Sentinel(message) ==
    JsonDict([summary |-> <<message>>, keywords |-> <<>>, insights |-> <<>>])

\* What leaves safe_parse_json when a json.loads call raises RecursionError:
\* the except clauses at lines 61, 77 and 87 name json.JSONDecodeError (and
\* IndexError) only
Raises(error) == [type |-> "raised", error |-> error]

RecursionError == "maximum recursion depth exceeded"

\* safe_parse_json, lines 55-95
safe_parse_json(t) ==
    IF t.blank THEN Sentinel("Empty response")
    ELSE IF t.whole.parsed THEN t.whole.value
    ELSE IF t.whole.raised THEN Raises(RecursionError)
    ELSE IF t.fence_json.parsed THEN t.fence_json.value
    ELSE IF t.fence_json.raised THEN Raises(RecursionError)
    ELSE IF t.fence.parsed THEN t.fence.value
    ELSE IF t.fence.raised THEN Raises(RecursionError)
    ELSE IF t.braces.parsed THEN t.braces.value
    ELSE IF t.braces.raised THEN Raises(RecursionError)
    ELSE Sentinel("Failed to parse LLM response")

\* sub in s
Contains(s, sub) == \E i \in 1..(Len(s) - Len(sub) + 1) : StartsWithAt(s, i, sub)

\* d.get(k, default) on a dict
Get(d, k, default) == IF k \in DOMAIN d THEN d[k] ELSE default

JsonRetries == 2

\* generate_json_async, lines 476-506: the loop from attempt on; replies[k] is
\* what the k-th text request comes to.  Returns the mapping and the number of
\* text requests made.
RECURSIVE JsonAttempt(_, _)
JsonAttempt(replies, attempt) ==
    LET reply == replies[attempt + 1]
        result == safe_parse_json(reply.text)
        first == Get(result.items, "summary", <<"">>)
        raised == IF ~reply.ok THEN reply.error
                  ELSE IF result.type = "raised" THEN result.error
                  ELSE IF result.type # "dict"
                  THEN "'list' object has no attribute 'get'"
                  ELSE IF first = <<>> THEN "list index out of range"
                  ELSE None
    IN  IF raised # None
        THEN IF attempt < JsonRetries THEN JsonAttempt(replies, attempt + 1)
             ELSE [result |-> Sentinel("Error: " \o raised).items,
                   requests |-> attempt + 1]
        ELSE IF Contains(first[1], "Failed to parse") /\ attempt < JsonRetries
        THEN JsonAttempt(replies, attempt + 1)
        ELSE [result |-> result.items, requests |-> attempt + 1]

generate_json_async(replies) == JsonAttempt(replies, 0)

-----------------------------------------------------------------------------
(* Documents, metadata and sections: PDFProcessor. *)

\* The file at pdf_path: its content is one of MaxVersions versions of each
\* page count.
MaxVersions == 2

Documents == [version : 1..MaxVersions, total_pages : 1..MaxPages]

\* PDFProcessor._get_file_hash: a digest of the file's bytes
get_file_hash(doc) ==
    "md5:" \o IntToStr(doc.version) \o ":" \o IntToStr(doc.total_pages)

\* PDFProcessor.get_pdf_metadata
get_pdf_metadata(doc, chunk_size) ==
    [total_pages |-> doc.total_pages,
     total_sections |-> (doc.total_pages + chunk_size - 1) \div chunk_size,
     chunk_size |-> chunk_size,
     file_hash |-> get_file_hash(doc)]

\* PDFProcessor.extract_section_text, lines 95-121, for a 0-indexed section:
\* the 1-indexed section id and page range it returns
extract_section_text(md, section_id) ==
    [section_id |-> section_id + 1,
     page_range |-> <<section_id * md.chunk_size + 1,
                      Min((section_id + 1) * md.chunk_size, md.total_pages)>>]

\* summarize_sections_node.summarize_section, lines 160-194.  extraction is
\* what extract_section_text comes to ("ok" or "fail": it raises); the call
\* of it stands before the try block.
summarize_section(section_id, md, extraction, replies) ==
    IF extraction = "fail"
    THEN [raised |-> "ExtractionError", requests |-> 0]
    ELSE LET section_data == extract_section_text(md, section_id)
             summary_data == generate_json_async(replies)
         IN  [raised |-> None,
              requests |-> summary_data.requests,
              summary |->
                  [section_id |-> section_data.section_id,
                   page_range |-> section_data.page_range,
                   summary |-> Get(summary_data.result, "summary", <<>>),
                   keywords |-> Get(summary_data.result, "keywords", <<>>),
                   insights |-> Get(summary_data.result, "insights", <<>>)]]

\* summarize_sections_node, lines 198-203 and 214: the sections summarized
\* together from section i on
BatchSize(cfg) == IF cfg.indexing_concurrent > 1 THEN cfg.indexing_concurrent ELSE 1

\* fault variant: every remaining section is started at once
Batch_unbounded(i, cfg, md) == i..(md.total_sections - 1)

Batch(i, cfg, md) == i..(Min(i + BatchSize(cfg), md.total_sections) - 1)

\* fault variant: the results of a batch come last section first
RECURSIVE BatchResults_reversed(_, _, _)
BatchResults_reversed(i, last, results) ==
    IF i > last THEN <<>>
    ELSE BatchResults_reversed(i + 1, last, results) \o <<results[i]>>

\* batch_results in the order of the batch
RECURSIVE BatchResults(_, _, _)
BatchResults(i, last, results) ==
    IF i > last THEN <<>> ELSE <<results[i]>> \o BatchResults(i + 1, last, results)

-----------------------------------------------------------------------------
(* The summary cache of PDFQAAgent. *)

NoCacheFile == [kind |-> "missing"]
CorruptCacheFile == [kind |-> "corrupt"]

\* Fault variant of _load_summaries_from_cache: the record is never found.
load_summaries_from_cache_missing(cache, md) == [some |-> FALSE]

\* _load_summaries_from_cache: the summaries, or None
load_summaries_from_cache(cache, md) ==
    IF cache.kind = "record" /\ cache.file_hash = md.file_hash
    THEN [some |-> TRUE, value |-> cache.summaries]
    ELSE [some |-> FALSE]

\* index_pdf, lines 602-607: whether the call returns the cached summaries
UsesCache(force, cache, md) ==
    /\ ~force
    /\ load_summaries_from_cache(cache, md).some
    /\ load_summaries_from_cache(cache, md).value # <<>>

\* _save_summaries_to_cache: the file after the call.  outcome is "written",
\* "open_failed" (nothing touched) or "write_failed" (the file was truncated
\* by open(..., 'w') and the dump did not complete); the exception is swallowed.
save_summaries_to_cache(cache, md, summaries, outcome) ==
    IF outcome = "written"
    THEN [kind |-> "record", file_hash |-> md.file_hash, summaries |-> summaries,
          total_sections |-> Len(summaries)]
    ELSE IF outcome = "write_failed" THEN CorruptCacheFile
    ELSE cache

SaveOutcomes == {"written", "open_failed", "write_failed"}

-----------------------------------------------------------------------------
(* The question pipeline as a state machine: PDFQAAgent.ask on an indexed  *)
(* document.  pc names the graph node about to run ("router", "fetcher",   *)
(* "error_correction", "answer_generator"), or "END" when the graph has    *)
(* finished and ask() returned, "raised" when ask() raised, "idle" before. *)

MaxSectionsCap == 1

RouterMaxSectionsValues ==
    {[kind |-> "absent"], [kind |-> "str", text |-> "5"]}
        \cup {[kind |-> "int", value |-> n] : n \in 0..MaxSectionsCap}

\* Model responses the gateway may return to the three prompts.
RouterResponses ==
    {"Decision: Pages 1-2", "Decision: Page 3", "Pages 2, 2", "I cannot tell",
     "Decision: Pages 9-10", "Decision: Pages 1-99999999999999999999",
     "Pages 8-9. Page 2 has 3 items",
     "Pages 1-2 are the intro. Decision: Pages 9-10"}

CorrectionResponses == {"[1, 2]", "[7]", "Page 3 or 3", "none"}

AnswerResponses == {"The answer [Page 1]"}

NoHist ==
    [router_runs |-> 0, fetcher_runs |-> 0, correction_runs |-> 0,
     answer_runs |-> 0, text_requests |-> 0, error_streak |-> 0,
     router_sections |-> 0, vision_calls |-> <<>>, combined_text |-> "",
     answer_error |-> None, raised |-> None, router_gw |-> None,
     router_response |-> None, correction_gw |-> None,
     correction_response |-> None]

IdleFetch == [pc |-> "off"]
IdleIndex == [pc |-> "off"]
IdleGateway == [pc |-> "off"]

\* the summaries of an index run in which every section parsed
RECURSIVE GoodSummaries(_, _)
GoodSummaries(md, n) ==
    IF n = 0 THEN <<>>
    ELSE Append(GoodSummaries(md, n - 1),
             [section_id |-> n, page_range |-> extract_section_text(md, n - 1).page_range,
              summary |-> GoodSummary.summary, keywords |-> GoodSummary.keywords,
              insights |-> GoodSummary.insights])

Init ==
    /\ settings \in [router_max_sections : RouterMaxSectionsValues,
                     indexing_concurrent : {1}, chunk_size : 1..MaxChunk]
    /\ \E doc \in Documents :
          /\ doc.version = 1
          /\ metadata = get_pdf_metadata(doc, settings.chunk_size)
    /\ section_summaries =
          [loaded |-> TRUE, value |-> GoodSummaries(metadata, metadata.total_sections)]
    /\ cache_file = NoCacheFile
    /\ state = InitialState
    /\ pc = "idle"
    /\ hist = NoHist
    /\ asked = 0
    /\ fx = IdleFetch
    /\ ix = IdleIndex
    /\ gx = IdleGateway

\* ask(), lines 642-665, with the summaries loaded: a fresh state enters the graph
Ask ==
    /\ pc \in {"idle", "END", "raised"}
    /\ asked < MaxQuestions
    /\ section_summaries.loaded
    /\ state' = initial_state(state)
    /\ pc' = "router"
    /\ hist' = NoHist
    /\ asked' = asked + 1
    /\ UNCHANGED <<settings, metadata, section_summaries, cache_file, fx, ix, gx>>

Router ==
    /\ pc = "router"
    /\ \E gw \in TextOutcomes, response \in RouterResponses :
          LET r == router_node(state, metadata, section_summaries.value, settings,
                               gw, response)
          IN  /\ state' = r.state
              /\ pc' = IF r.raised # None THEN "raised" ELSE "fetcher"
              /\ hist' = [hist EXCEPT
                    !.router_runs = @ + 1,
                    !.text_requests = IF r.raised # None THEN @ ELSE @ + 1,
                    !.router_sections = r.sections,
                    !.raised = r.raised,
                    !.router_gw = IF r.raised # None THEN None
                                  ELSE IF gw.ok THEN "returned" ELSE "failed",
                    !.router_response = IF r.raised = None /\ gw.ok
                                        THEN response ELSE None]
    /\ UNCHANGED <<settings, metadata, section_summaries, cache_file, asked, fx, ix, gx>>

\* (the response ROUTE or ERROR_CORRECT parsed is remembered in hist until the
\* next node has run)
Fetcher ==
    /\ pc = "fetcher"
    /\ \E outcomes \in [1..Len(state.predicted_pages) -> ExtractOutcomes] :
          /\ state' = fetcher_node(state, metadata, outcomes)
          /\ pc' = should_correct(state')
          /\ hist' = [hist EXCEPT
                !.fetcher_runs = @ + 1,
                !.error_streak = IF Truthy(state'.fetch_error) THEN @ + 1 ELSE 0,
                !.router_response = None,
                !.correction_gw = None,
                !.correction_response = None]
    /\ UNCHANGED <<settings, metadata, section_summaries, cache_file, asked, fx, ix, gx>>

ErrorCorrection ==
    /\ pc = "error_correction"
    /\ \E gw \in TextOutcomes, response \in CorrectionResponses :
          LET r == error_correction_node(state, metadata, gw, response)
          IN  /\ state' = r.state
              /\ hist' = [hist EXCEPT
                    !.correction_runs = @ + 1,
                    !.text_requests = IF r.called THEN @ + 1 ELSE @,
                    !.correction_gw = IF ~r.called THEN None
                                      ELSE IF gw.ok THEN "returned" ELSE "failed",
                    !.correction_response = IF r.called /\ gw.ok
                                            THEN response ELSE None]
    /\ pc' = "fetcher"
    /\ UNCHANGED <<settings, metadata, section_summaries, cache_file, asked, fx, ix, gx>>

\* the vision requests SYNTHESIZE can make: at most one per fetched page that
\* carries an image
ImagePages(st) ==
    {i \in 1..Len(st.fetched_pages) :
        /\ st.fetched_pages[i] \in DOMAIN st.page_images
        /\ st.page_images[st.fetched_pages[i]] # <<>>}

AnswerGenerator ==
    /\ pc = "answer_generator"
    /\ \E gw \in TextOutcomes, response \in AnswerResponses,
          vision \in [1..Cardinality(ImagePages(state)) -> VisionOutcomes] :
          LET r == answer_generator_node(state, vision, gw, response)
          IN  /\ state' = r.state
              /\ pc' = IF r.raised # None THEN "raised" ELSE "END"
              /\ hist' = [hist EXCEPT
                    !.answer_runs = @ + 1,
                    !.text_requests = @ + 1,
                    !.vision_calls = r.vision_calls,
                    !.combined_text = r.combined_text,
                    !.answer_error = gw.error,
                    !.raised = r.raised]
    /\ UNCHANGED <<settings, metadata, section_summaries, cache_file, asked, fx, ix, gx>>

Next == Ask \/ Router \/ Fetcher \/ ErrorCorrection \/ AnswerGenerator

Spec == Init /\ [][Next]_vars

\* The graph runner executes the next node whenever there is one.
FairSpec == Spec /\ WF_vars(Next)

-----------------------------------------------------------------------------
(* Properties of the question pipeline. *)

RunEnded == pc \in {"END", "raised"}
AfterFetch == pc \in {"error_correction", "answer_generator"}

\* C1: every run of a question ends at DONE, after SYNTHESIZE has run, with at
\* most 3 executions of ERROR_CORRECT and at most 4 of FETCH
C1_RunEndsAtDone ==
    /\ hist.correction_runs <= 3
    /\ hist.fetcher_runs <= 4
    /\ RunEnded => pc = "END" /\ hist.answer_runs = 1

\* C2: the only transitions are ROUTE->FETCH, FETCH->ERROR_CORRECT,
\* FETCH->SYNTHESIZE, ERROR_CORRECT->FETCH and SYNTHESIZE->DONE; after FETCH the
\* next stage is ERROR_CORRECT exactly when fetch_error is non-empty and
\* retry_count < 3; a run that ends has run ROUTE once and SYNTHESIZE once
C2_Transitions ==
    [][/\ pc = "router" => pc' = "fetcher"
       /\ pc = "fetcher" =>
             /\ pc' \in {"error_correction", "answer_generator"}
             /\ pc' = "error_correction" <=>
                   (Truthy(state'.fetch_error) /\ state'.retry_count < 3)
       /\ pc = "error_correction" => pc' = "fetcher"
       /\ pc = "answer_generator" => pc' = "END"
       /\ pc' \in {"END", "raised"} /\ pc \notin {"END", "raised"} =>
             hist'.router_runs = 1 /\ hist'.answer_runs = 1]_vars

\* C3: retry_count is the number of ERROR_CORRECT executions of the run so far,
\* whatever the gateway did in them, and never exceeds 3
C3_RetryCountCounts ==
    /\ state.retry_count = hist.correction_runs
    /\ state.retry_count <= 3

\* three corrections done, the last with a failed gateway call (the error stays)
C3_Witness ==
    /\ pc = "fetcher"
    /\ state.retry_count = 3
    /\ Truthy(state.fetch_error)

\* C4 as stated: after three consecutive failing FETCH executions the next
\* stage is SYNTHESIZE
C4_ThreeFailuresSynthesize ==
    (AfterFetch /\ hist.error_streak = 3) => pc = "answer_generator"

\* C4: the ceiling is exhausted by three ERROR_CORRECT executions: after the
\* third consecutive failing FETCH the next stage is ERROR_CORRECT (retry_count
\* is 2), and after the fourth FETCH it is SYNTHESIZE with retry_count 3,
\* on whatever was fetched
C4_FourthFetchSynthesizes ==
    AfterFetch =>
        /\ hist.error_streak <= 4
        /\ hist.error_streak = 3 => pc = "error_correction" /\ state.retry_count = 2
        /\ hist.error_streak = 4 => pc = "answer_generator" /\ state.retry_count = 3
        /\ hist.fetcher_runs = 4 => pc = "answer_generator"

\* four failing fetches, nothing fetched, SYNTHESIZE is next
C4_Witness ==
    /\ pc = "answer_generator"
    /\ hist.error_streak = 4
    /\ state.fetched_pages = <<>>

\* C5: ask() never raises, whatever the gateway, the extraction and the
\* configuration do: every run that ends returns an answer
C5_AskNeverRaises ==
    /\ pc # "raised"
    /\ hist.raised = None

\* C6: a gateway failure in SYNTHESIZE does not raise: the answer embeds the
\* error message, sources is the fetched pages and the run is at DONE
C6_SynthesisFailureDegrades ==
    (hist.answer_runs = 1 /\ hist.answer_error # None) =>
        /\ pc = "END"
        /\ hist.raised = None
        /\ Contains(state.answer, hist.answer_error)
        /\ state.answer = "Error generating answer: " \o hist.answer_error
        /\ state.sources = state.fetched_pages

\* SYNTHESIZE ran on fetched pages and the gateway's retries were exhausted
C6_Witness ==
    /\ pc = "END"
    /\ hist.answer_error = "Rate limit exceeded"
    /\ state.sources # <<>>

-----------------------------------------------------------------------------
(* The tool layer on its own: PageFetcherTool.fetch_pages called with any    *)
(* list of page numbers, duplicates and out-of-range numbers included.       *)

MaxFetchCalls == 2

RECURSIVE SeqsUpTo(_, _)
SeqsUpTo(S, n) ==
    IF n = 0 THEN {<<>>}
    ELSE SeqsUpTo(S, n - 1) \cup [1..n -> S]

FetchRequests == SeqsUpTo(0..(MaxPages + 1), MaxFetchLen)

InitFetch ==
    /\ settings = [router_max_sections |-> [kind |-> "absent"],
                   indexing_concurrent |-> 1, chunk_size |-> 1]
    /\ \E doc \in Documents :
          /\ doc.version = 1
          /\ metadata = get_pdf_metadata(doc, settings.chunk_size)
    /\ section_summaries = [loaded |-> FALSE]
    /\ cache_file = NoCacheFile
    /\ state = InitialState
    /\ pc = "idle"
    /\ hist = NoHist
    /\ asked = 0
    /\ \E page_numbers \in FetchRequests :
          fx = [pc |-> "ready", page_numbers |-> page_numbers, calls |-> 0]
    /\ ix = IdleIndex
    /\ gx = IdleGateway

\* the extractions of this call come to what they came to in the call before:
\* the content of the document is unchanged
RepeatsFetch(outcomes) == fx.pc = "done" /\ outcomes = fx.outcomes

\* Fault variant of the fetch tool: the result dict is kept on the tool and
\* the next call goes on filling it.
FetchPages_keeps_result ==
    /\ fx.pc \in {"ready", "done"}
    /\ fx.calls < MaxFetchCalls
    /\ \E outcomes \in [1..Len(fx.page_numbers) -> ExtractOutcomes] :
          fx' = [pc |-> "done", page_numbers |-> fx.page_numbers,
                 calls |-> fx.calls + 1, outcomes |-> outcomes,
                 repeated |-> RepeatsFetch(outcomes),
                 result |-> FetchLoop(fx.page_numbers, metadata.total_pages,
                               outcomes, 1,
                               IF fx.pc = "done" THEN fx.result
                               ELSE fetch_pages(<<>>, metadata, outcomes))]
    /\ UNCHANGED <<settings, metadata, section_summaries, cache_file, state, pc,
                   hist, asked, ix, gx>>

\* one call of fetch_pages on the request: the tool holds a processor and
\* nothing else (lines 69-70), and the result dict is built in the call
FetchPages ==
    /\ fx.pc \in {"ready", "done"}
    /\ fx.calls < MaxFetchCalls
    /\ \E outcomes \in [1..Len(fx.page_numbers) -> ExtractOutcomes] :
          fx' = [pc |-> "done", page_numbers |-> fx.page_numbers,
                 calls |-> fx.calls + 1, outcomes |-> outcomes,
                 repeated |-> RepeatsFetch(outcomes),
                 result |-> fetch_pages(fx.page_numbers, metadata, outcomes)]
    /\ UNCHANGED <<settings, metadata, section_summaries, cache_file, state, pc,
                   hist, asked, ix, gx>>

NextFetch == FetchPages

SpecFetch == InitFetch /\ [][NextFetch]_vars

InRange(n) == n >= 1 /\ n <= metadata.total_pages

\* C7: fetch is best-effort per page: every requested entry gives one success
\* or one error string, so len(fetched_pages) + len(errors) = len(pageNumbers);
\* an entry outside [1, totalPages] is not passed to the extraction and gives
\* "Page N out of range (1-totalPages)"; an entry that is in range and whose
\* extraction succeeds is fetched whatever happened to the entries before it
C7_FetchBestEffort ==
    fx.pc = "done" =>
        LET r == fx.result
            pn == fx.page_numbers
        IN  /\ Len(r.fetched_pages) + Len(r.errors) = Len(pn)
            /\ \A k \in 1..Len(r.fetched_pages) :
                  r.fetched_pages[k] \in DOMAIN r.texts
            /\ \A k \in 1..Len(r.extracted) : InRange(r.extracted[k])
            /\ \A i \in 1..Len(pn) :
                  /\ ~InRange(pn[i]) =>
                        SeqContains(r.errors,
                            "Page " \o IntToStr(pn[i]) \o " out of range (1-"
                                \o IntToStr(metadata.total_pages) \o ")")
                  /\ (InRange(pn[i]) /\ fx.outcomes[i] # "fail") =>
                        /\ SeqContains(r.fetched_pages, pn[i])
                        /\ pn[i] \in DOMAIN r.texts

\* the first entry is out of range, the second one is fetched all the same
C7_Witness ==
    /\ fx.pc = "done"
    /\ Len(fx.page_numbers) = 2
    /\ fx.page_numbers[1] = metadata.total_pages + 1
    /\ Len(fx.result.errors) = 1
    /\ fx.result.extracted = <<fx.page_numbers[2]>>
    /\ fx.result.fetched_pages = <<fx.page_numbers[2]>>

-----------------------------------------------------------------------------
(* Indexing as a state machine: processes that construct a PDFQAAgent on the *)
(* file at pdf_path and call index_pdf.  ix.pc is "idle" when no call is     *)
(* active, "summarizing" between the batches of summarize_sections_node,     *)
(* "batch" while the sections of a batch are in flight, "raised" when        *)
(* index_pdf raised, ix.fresh says that the process has not called it yet.   *)
(* ix.prev and ix.completed record the last two calls of index_pdf that     *)
(* returned.                                                                 *)

MaxConcurrent == 2
\* the documents that are indexed have 1..MaxIndexPages pages
MaxIndexPages == 2

IndexDocuments == {doc \in Documents : doc.total_pages <= MaxIndexPages}

GoodReply == [ok |-> TRUE, text |-> GoodJsonText]
GarbageReply == [ok |-> TRUE, text |-> GarbageText]
FailedReply == [ok |-> FALSE, text |-> BlankText, error |-> "Rate limit exceeded"]

\* what the up to three text requests of one generate_json_async call come to
IndexReplies ==
    {<<GoodReply, GoodReply, GoodReply>>,
     <<FailedReply, FailedReply, FailedReply>>}

NoCall == [some |-> FALSE]

\* what a cache file is and, for a record, the hash it carries
CacheKey(cache) ==
    IF cache.kind = "record"
    THEN [kind |-> "record", file_hash |-> cache.file_hash]
    ELSE [kind |-> cache.kind]

\* the part of a returned call that the next call is compared with
Earlier(call) ==
    IF call.some
    THEN [some |-> TRUE, file_hash |-> call.file_hash, summaries |-> call.summaries,
          hit |-> call.hit, requests |-> call.requests, persisted |-> call.persisted]
    ELSE NoCall

InitIndex ==
    /\ settings \in [router_max_sections : {[kind |-> "absent"]},
                     indexing_concurrent : 1..MaxConcurrent,
                     chunk_size : 1..MaxChunk]
    /\ \E doc \in IndexDocuments :
          /\ doc.version = 1
          /\ metadata = get_pdf_metadata(doc, settings.chunk_size)
    /\ section_summaries = [loaded |-> FALSE]
    /\ cache_file = NoCacheFile
    /\ state = InitialState
    /\ pc = "idle"
    /\ hist = NoHist
    /\ asked = 0
    /\ fx = IdleFetch
    /\ gx = IdleGateway
    /\ ix = [pc |-> "idle", fresh |-> TRUE, calls |-> 0, force |-> FALSE, i |-> 0,
             inflight |-> {}, results |-> EmptyDict, summaries |-> <<>>,
             requests |-> 0, failed |-> EmptyDict, sleeps |-> 0,
             start_cache |-> CacheKey(NoCacheFile), call_hash |-> "",
             prev |-> NoCall, completed |-> NoCall]

\* PDFQAAgent.__init__ in a new process: the file at pdf_path may have been
\* replaced and the chunk size reconfigured since the last one
NewProcess ==
    /\ ix.pc \in {"idle", "raised"}
    /\ ~ix.fresh
    /\ ix.calls < MaxIndexCalls
    /\ \E doc \in IndexDocuments, chunk_size \in 1..MaxChunk :
          /\ settings' = [settings EXCEPT !.chunk_size = chunk_size]
          /\ metadata' = get_pdf_metadata(doc, chunk_size)
    /\ section_summaries' = [loaded |-> FALSE]
    /\ ix' = [ix EXCEPT !.pc = "idle", !.fresh = TRUE]
    /\ UNCHANGED <<cache_file, state, pc, hist, asked, fx, gx>>

PrevCall == IF ix.completed.some THEN Earlier(ix.completed) ELSE ix.prev

\* index_pdf, lines 601-621: the cached summaries are returned, or the
\* indexing graph is entered
index_pdf_begin(force) ==
    IF UsesCache(force, cache_file, metadata)
    THEN LET cached == load_summaries_from_cache(cache_file, metadata).value
         IN  /\ section_summaries' = [loaded |-> TRUE, value |-> cached]
             /\ ix' = [ix EXCEPT
                   !.pc = "idle", !.fresh = FALSE, !.calls = @ + 1, !.force = force,
                   !.requests = 0, !.summaries = <<>>, !.failed = EmptyDict,
                   !.start_cache = CacheKey(cache_file),
                   !.call_hash = metadata.file_hash,
                   !.prev = PrevCall,
                   !.completed =
                       [some |-> TRUE, file_hash |-> metadata.file_hash,
                        summaries |-> cached, requests |-> 0,
                        sections |-> metadata.total_sections,
                        force |-> force, hit |-> TRUE, persisted |-> TRUE]]
    ELSE /\ section_summaries' = section_summaries
         /\ ix' = [ix EXCEPT
               !.pc = "summarizing", !.fresh = FALSE, !.calls = @ + 1,
               !.force = force,
               !.i = 0, !.summaries = <<>>, !.requests = 0,
               !.failed = EmptyDict, !.sleeps = 0,
               !.start_cache = CacheKey(cache_file),
               !.call_hash = metadata.file_hash,
               !.prev = PrevCall, !.completed = NoCall]

\* a call of index_pdf, with or without force
IndexStart ==
    /\ ix.pc \in {"idle", "raised"}
    /\ ix.calls < MaxIndexCalls
    /\ \E force \in BOOLEAN : index_pdf_begin(force)
    /\ UNCHANGED <<settings, metadata, cache_file, state, pc, hist, asked, fx, gx>>

\* summarize_sections_node, lines 201-205 and 213-214: the tasks of the next
\* batch are created
BatchStart ==
    /\ ix.pc = "summarizing"
    /\ ix.i < metadata.total_sections
    /\ ix' = [ix EXCEPT !.pc = "batch",
                        !.inflight = Batch(ix.i, settings, metadata),
                        !.results = EmptyDict]
    /\ UNCHANGED <<settings, metadata, section_summaries, cache_file, state, pc,
                   hist, asked, fx, gx>>

\* one summarize_section task of the batch runs to its end: it returns the
\* section's summary, or its exception leaves gather, the graph and index_pdf
SectionDone ==
    /\ ix.pc = "batch"
    /\ \E section_id \in ix.inflight, extraction \in {"ok", "fail"},
          replies \in IndexReplies :
          LET r == summarize_section(section_id, metadata, extraction, replies)
          IN  IF r.raised # None
              THEN ix' = [ix EXCEPT !.pc = "raised", !.inflight = {}, !.i = 0,
                                    !.results = EmptyDict, !.summaries = <<>>,
                                    !.requests = 0, !.failed = EmptyDict,
                                    !.sleeps = 0]
              ELSE ix' = [ix EXCEPT
                      !.inflight = @ \ {section_id},
                      !.results = DictSet(@, section_id, r.summary),
                      !.requests = @ + r.requests,
                      !.failed = IF replies[r.requests].ok THEN @
                                 ELSE DictSet(@, section_id,
                                          replies[r.requests].error)]
    /\ UNCHANGED <<settings, metadata, section_summaries, cache_file, state, pc,
                   hist, asked, fx, gx>>

\* summarize_sections_node, lines 206-210 and 215-219: the batch's results are
\* appended in the order of the batch, then the delay
BatchEnd ==
    /\ ix.pc = "batch"
    /\ ix.inflight = {}
    /\ LET last == Min(ix.i + BatchSize(settings), metadata.total_sections) - 1
           sleeping == \/ settings.indexing_concurrent <= 1
                       \/ ix.i + BatchSize(settings) < metadata.total_sections
       IN  ix' = [ix EXCEPT
               !.pc = "summarizing",
               !.summaries = @ \o BatchResults(ix.i, last, ix.results),
               !.results = EmptyDict,
               !.i = @ + BatchSize(settings),
               !.sleeps = IF sleeping THEN @ + 1 ELSE @]
    /\ UNCHANGED <<settings, metadata, section_summaries, cache_file, state, pc,
                   hist, asked, fx, gx>>

\* index_pdf, lines 621-630: the summaries are kept, saved and returned
IndexFinish ==
    /\ ix.pc = "summarizing"
    /\ ix.i >= metadata.total_sections
    /\ section_summaries' = [loaded |-> TRUE, value |-> ix.summaries]
    /\ \E outcome \in SaveOutcomes :
          /\ cache_file' = save_summaries_to_cache(cache_file, metadata,
                                                   ix.summaries, outcome)
          /\ ix' = [ix EXCEPT
                !.pc = "idle", !.i = 0, !.summaries = <<>>, !.requests = 0,
                !.failed = EmptyDict, !.sleeps = 0,
                !.completed =
                    [some |-> TRUE, file_hash |-> metadata.file_hash,
                     summaries |-> ix.summaries, requests |-> ix.requests,
                     sections |-> metadata.total_sections,
                     force |-> ix.force, hit |-> FALSE,
                     persisted |-> (outcome = "written")]]
    /\ UNCHANGED <<settings, metadata, state, pc, hist, asked, fx, gx>>

NextIndex ==
    \/ NewProcess
    \/ IndexStart
    \/ BatchStart
    \/ SectionDone
    \/ BatchEnd
    \/ IndexFinish

SpecIndex == InitIndex /\ [][NextIndex]_vars

-----------------------------------------------------------------------------
(* Properties of indexing. *)

\* the degraded summary of a section whose processing failed with message
Degraded(message) ==
    [summary |-> <<"Error: " \o message>>, keywords |-> <<>>, insights |-> <<>>]

\* C8: a failure while processing one section, of the gateway or of the
\* extraction, never aborts index(): the section's summary becomes
\* {summary: ["Error: <message>"], keywords: [], insights: []} and every
\* section of the batches done so far has its summary
C8_SectionFailureIsolated ==
    /\ ix.pc # "raised"
    /\ ix.pc = "summarizing" =>
          /\ Len(ix.summaries) = Min(ix.i, metadata.total_sections)
          /\ \A section_id \in DOMAIN ix.failed :
                LET got == ix.summaries[section_id + 1]
                IN  /\ got.section_id = section_id + 1
                    /\ [summary |-> got.summary, keywords |-> got.keywords,
                        insights |-> got.insights]
                          = Degraded(ix.failed[section_id])

C10_ChangedHashReindexes ==
    (ix.calls > 0 /\ ix.pc \in {"idle", "raised"}
        /\ ix.start_cache.kind = "record"
        /\ ix.start_cache.file_hash # ix.call_hash) =>
        /\ ix.pc = "idle"
        /\ ix.completed.some /\ ~ix.completed.hit
        /\ ix.completed.requests >= ix.completed.sections
        /\ cache_file.kind = "record"
        /\ cache_file.file_hash = ix.call_hash
        /\ cache_file.summaries = ix.completed.summaries

\* C11: cache writes are all-or-nothing: whatever fails or is interrupted
\* during indexing or during the write, the file at the cache path is the
\* complete previous record or the complete new one, never a partial one
C11_CacheAllOrNothing ==
    /\ cache_file.kind \in {"missing", "record"}
    /\ cache_file.kind = "record" =>
          /\ cache_file.summaries # <<>>
          /\ cache_file.total_sections = Len(cache_file.summaries)

-----------------------------------------------------------------------------
(* The gateway on its own: one request of GLMClient.generate_text_async or   *)
(* of the synchronous GLMClient.generate_with_image, which goes through      *)
(* _make_request_with_retry.  gx.outs[k] is what the k-th network attempt    *)
(* would come to.                                                            *)

GatewayRequests == [1..(GatewayRetries + 2) -> HttpOutcomes]

InitGateway ==
    /\ settings = [router_max_sections |-> [kind |-> "absent"],
                   indexing_concurrent |-> 1, chunk_size |-> 1]
    /\ metadata = get_pdf_metadata([version |-> 1, total_pages |-> 1], 1)
    /\ section_summaries = [loaded |-> FALSE]
    /\ cache_file = NoCacheFile
    /\ state = InitialState
    /\ pc = "idle"
    /\ hist = NoHist
    /\ asked = 0
    /\ fx = IdleFetch
    /\ ix = IdleIndex
    /\ \E outs \in GatewayRequests : gx = [pc |-> "ready", outs |-> outs]

TextRequest ==
    /\ gx.pc = "ready"
    /\ gx' = [pc |-> "done", fn |-> "generate_text_async", outs |-> gx.outs,
              result |-> generate_text_async(gx.outs)]
    /\ UNCHANGED <<settings, metadata, section_summaries, cache_file, state, pc,
                   hist, asked, fx, ix>>

ImageRequest ==
    /\ gx.pc = "ready"
    /\ gx' = [pc |-> "done", fn |-> "generate_with_image", outs |-> gx.outs,
              result |-> generate_with_image(gx.outs)]
    /\ UNCHANGED <<settings, metadata, section_summaries, cache_file, state, pc,
                   hist, asked, fx, ix>>

NextGateway == TextRequest \/ ImageRequest

SpecGateway == InitGateway /\ [][NextGateway]_vars

Retryable(o) == o \in {"429", "5xx"}

\* the attempts before the k-th were all answered 429 or 5xx
RetriedUpTo(outs, k) == \A j \in 1..(k - 1) : Retryable(outs[j])

\* C12: a request makes at most N + 1 = 4 network attempts, whatever the
\* interleaving of 429 and 5xx responses; every attempt but the last was
\* answered 429 or 5xx; the text is returned on the first successful response
C12_AtMostFourAttempts ==
    gx.pc = "done" =>
        /\ gx.result.attempts >= 1
        /\ gx.result.attempts <= 4
        /\ RetriedUpTo(gx.outs, gx.result.attempts)
        /\ gx.result.ok => gx.outs[gx.result.attempts] = "ok"
        /\ \A k \in 1..4 :
              (gx.outs[k] = "ok" /\ RetriedUpTo(gx.outs, k)) =>
                  gx.result.ok /\ gx.result.attempts = k

\* three retries after mixed 429 and 5xx responses, success on the fourth attempt
C12_Witness ==
    /\ gx.pc = "done"
    /\ gx.outs[1] = "429" /\ gx.outs[2] = "5xx" /\ gx.outs[3] = "429"
    /\ gx.result.ok
    /\ gx.result.attempts = 4

\* C13: a 4xx other than 429, a timeout or a transport error is raised to the
\* caller at once: the failing attempt is the request's last, however many
\* retries remain
C13_OtherFailuresPropagate ==
    gx.pc = "done" =>
        \A k \in 1..4 :
            (gx.outs[k] \in {"4xx", "transport"} /\ RetriedUpTo(gx.outs, k)) =>
                /\ ~gx.result.ok
                /\ gx.result.attempts = k
                /\ gx.result.error =
                      (IF gx.outs[k] = "4xx" THEN "Client error" ELSE "Transport error")

\* a client error on the second attempt, two retries remaining
C13_Witness ==
    /\ gx.pc = "done"
    /\ gx.outs[1] = "5xx" /\ gx.outs[2] = "4xx"
    /\ ~gx.result.ok
    /\ gx.result.attempts = 2
    /\ gx.fn = "generate_text_async"

\* C14: a request whose last allowed attempt fails returns no value: it raises
\* the rate-limit error after a 429 and the server error after a 5xx; every
\* request ends with the text of a successful response or with an error
C14_LastAttemptRaises ==
    gx.pc = "done" =>
        /\ gx.result.ok <=> gx.result.error = None
        /\ gx.result.ok => gx.outs[gx.result.attempts] = "ok"
        /\ (RetriedUpTo(gx.outs, 4) /\ gx.outs[4] = "429") =>
              ~gx.result.ok /\ gx.result.error = "Rate limit exceeded"
        /\ (RetriedUpTo(gx.outs, 4) /\ gx.outs[4] = "5xx") =>
              ~gx.result.ok /\ gx.result.error = "Server error"

\* the synchronous path, rate-limited on each of its four attempts
C14_Witness ==
    /\ gx.pc = "done"
    /\ gx.fn = "generate_with_image"
    /\ \A k \in 1..4 : gx.outs[k] = "429"
    /\ gx.result.attempts = 4
    /\ gx.result.error = "Rate limit exceeded"

\* C15: the delay before the retry that follows the k-th failed attempt
\* (k = 0, 1, 2, counting 429 and 5xx alike) is 2^k seconds: 1, 2, 4; the
\* delays of one request are strictly increasing
C15_BackoffDoubles ==
    gx.pc = "done" =>
        /\ Len(gx.result.delays) = gx.result.attempts - 1
        /\ gx.result.delays = SubSeq(<<1, 2, 4>>, 1, gx.result.attempts - 1)
        /\ \A j \in 1..(Len(gx.result.delays) - 1) :
              gx.result.delays[j] < gx.result.delays[j + 1]

\* three retries, after a 429, a 5xx and a 429
C15_Witness ==
    /\ gx.pc = "done"
    /\ gx.outs[1] = "429" /\ gx.outs[2] = "5xx" /\ gx.outs[3] = "429"
    /\ gx.result.delays = <<1, 2, 4>>


\* ---------------------------------------------------------------------------
\* The result of ROUTE

\* ROUTE has run to its end in the current question
Routed == hist.router_runs = 1 /\ hist.raised = None

\* C16: after ROUTE the confidence is 0.8 whenever the gateway returned a
\* response and 0.1 exactly when the gateway call failed, and on that failure
\* the predicted pages are the first chunk.  (Confidences are in tenths.)
C16_ConfidenceTellsGatewayOutcome ==
    Routed =>
        /\ hist.router_gw = "returned" => state.router_confidence = 8
        /\ state.router_confidence = 1 <=> hist.router_gw = "failed"
        /\ (hist.router_gw = "failed" /\ hist.correction_runs = 0)
               => state.predicted_pages = FirstChunk(metadata)

\* ROUTE alone, on documents and chunk sizes beyond the twenty-page limit
\* the largest document ROUTE is run on
MaxRouterPages == 22
\* the largest chunk size ROUTE is run with
MaxRouterChunk == 22

\* ask(), lines 642-665: the graph is entered at the router with a fresh state
InitRouter ==
    /\ settings \in [router_max_sections : RouterMaxSectionsValues,
                     indexing_concurrent : {1}, chunk_size : 1..MaxRouterChunk]
    /\ \E n \in 1..MaxRouterPages :
          metadata = get_pdf_metadata([version |-> 1, total_pages |-> n],
                                      settings.chunk_size)
    /\ section_summaries =
          [loaded |-> TRUE, value |-> GoodSummaries(metadata, metadata.total_sections)]
    /\ cache_file = NoCacheFile
    /\ state = InitialState
    /\ pc = "router"
    /\ hist = NoHist
    /\ asked = 1
    /\ fx = IdleFetch
    /\ ix = IdleIndex
    /\ gx = IdleGateway

NextRouter == Router

SpecRouter == InitRouter /\ [][NextRouter]_vars

\* C17: after ROUTE the predicted pages have at most 20 entries, for every
\* model response, every gateway outcome and every chunk size.
C17_AtMostTwentyPages ==
    (Routed /\ hist.correction_runs = 0)
        => Len(state.predicted_pages) <= RouterMaxPages

\* C18: in every state after ROUTE has run, and so after every ERROR_CORRECT,
\* every predicted page lies within [1, total_pages], whatever the model said.
C18_PredictedPagesInRange ==
    hist.router_gw # None =>
        \A i \in 1..Len(state.predicted_pages) :
            1 <= state.predicted_pages[i]
                /\ state.predicted_pages[i] <= metadata.total_pages

\* ERROR_CORRECT got no in-range page from the model and stored [1]: with three
\* pages in chunks of two, ROUTE never stores [1] itself
C18_Witness ==
    /\ hist.correction_runs >= 1
    /\ metadata.total_pages = 3
    /\ metadata.chunk_size = 2
    /\ state.predicted_pages = <<1>>

\* C19: the predicted pages of every reachable query state are distinct: neither
\* ROUTE nor ERROR_CORRECT stores the same page number twice.
C19_PredictedPagesDistinct ==
    \A i, j \in 1..Len(state.predicted_pages) :
        i # j => state.predicted_pages[i] # state.predicted_pages[j]

\* The ladder of extraction tiers as the claim words it: each tier in turn, and
\* the first one whose in-range pages are not empty decides.
LadderPages(response, md) ==
    LET low == Lower(response)
        range_match == RangeSearch(low, 1)
        list_match == ListSearch(low, 1)
        single_match == SingleSearch(low, 1)
        range_tier == IF range_match.matched
                      THEN ValidPages(Range(StrToInt(range_match.g1),
                                            StrToInt(range_match.g2)), md.total_pages)
                      ELSE <<>>
        list_tier == IF list_match.matched
                     THEN ValidPages(IntsOfPieces(SplitComma(
                              ReplaceSpaceByComma(list_match.g1))), md.total_pages)
                     ELSE <<>>
        single_tier == IF single_match.matched
                       THEN ValidPages(<<StrToInt(single_match.g1)>>, md.total_pages)
                       ELSE <<>>
        number_tier == FallbackNumbers(FindNumbers(response, 1), md.total_pages, <<>>)
    IN  IF range_tier # <<>> THEN range_tier
        ELSE IF list_tier # <<>> THEN list_tier
        ELSE IF single_tier # <<>> THEN single_tier
        ELSE IF number_tier # <<>> THEN number_tier
        ELSE FirstChunk(md)

\* ROUTE got a response from the gateway and parsed it
RouteParsed ==
    /\ Routed
    /\ hist.fetcher_runs = 0
    /\ hist.router_gw = "returned"
    /\ ~RouterParseRaises(hist.router_response)

\* C20: the pages ROUTE stores are those of the first tier, in the order range,
\* list, single mention, any in-range number, first chunk, that yields an
\* in-range page; a tier that matches without an in-range page hands over to
\* the next tier.
C20_TiersInOrder ==
    RouteParsed =>
        state.predicted_pages =
            Take(LadderPages(hist.router_response, metadata), RouterMaxPages)

\* index of the first occurrence of w in s at or after i, Len(s)+1 when none
RECURSIVE FindWord(_, _, _)
FindWord(s, w, i) ==
    IF i > Len(s) \/ StartsWithAt(s, i, w) THEN i ELSE FindWord(s, w, i + 1)

\* The decision of a router response in the format the routing prompt asks for
\* ("Reasoning: ... Decision: Pages X-Y"): what follows "decision:", and the
\* whole response when that word is missing.  The range it names, if it is one.
DecisionRange(response) ==
    LET low == Lower(response)
        k == FindWord(low, "decision:", 1)
        from == IF k > Len(low) THEN 1 ELSE k + Len("decision:")
    IN  RangeMatchAt(low, SkipSpaces(low, from))

\* the decision of the response ROUTE has just parsed is the range a-b of the
\* claim: 1 <= a <= b <= total_pages and b - a < 20
DecisionIsSmallRange ==
    /\ Routed
    /\ hist.fetcher_runs = 0
    /\ hist.router_response # None
    /\ LET d == DecisionRange(hist.router_response)
       IN  /\ d.matched
           /\ SignificantDigits(d.g1) <= 9
           /\ SignificantDigits(d.g2) <= 9
           /\ 1 <= StrToInt(d.g1)
           /\ StrToInt(d.g1) <= StrToInt(d.g2)
           /\ StrToInt(d.g2) <= metadata.total_pages
           /\ StrToInt(d.g2) - StrToInt(d.g1) < RouterMaxPages

\* C21: when the decision of the router response is a page range "Pages a-b"
\* with 1 <= a <= b <= total_pages and b - a < 20, ROUTE stores [a, ..., b] and
\* the confidence 0.8.
C21_DecisionRangeStored ==
    DecisionIsSmallRange =>
        LET d == DecisionRange(hist.router_response)
        IN  /\ state.predicted_pages = Range(StrToInt(d.g1), StrToInt(d.g2))
            /\ state.router_confidence = 8

\* ---------------------------------------------------------------------------
\* The result of ERROR_CORRECT

\* the pages of a candidate list that lie in the document, in their order
PagesInDocument(candidates, total_pages) ==
    SelectSeq(candidates, LAMBDA p : 1 <= p /\ p <= total_pages)

\* C22: when the gateway call of ERROR_CORRECT succeeds, the predicted pages
\* become the candidate pages of the response without those outside
\* [1, total_pages], or [1] when none remains, and fetch_error is cleared
\* before the next FETCH.
C22_CorrectionStoresValidPages ==
    hist.correction_gw = "returned" =>
        LET kept == PagesInDocument(parse_page_list(hist.correction_response),
                                    metadata.total_pages)
        IN  /\ pc = "fetcher"
            /\ state.predicted_pages = IF kept = <<>> THEN <<1>> ELSE kept
            /\ state.fetch_error = None

\* "[1, 2]" corrected the pages of a one-page document: page 2 was discarded
C22_Witness ==
    /\ hist.correction_gw = "returned"
    /\ hist.correction_response = "[1, 2]"
    /\ metadata.total_pages = 1
    /\ state.predicted_pages = <<1>>
    /\ state.fetch_error = None

\* ---------------------------------------------------------------------------
\* The vision request of SYNTHESIZE

CarriesImage(page_num) ==
    page_num \in DOMAIN state.page_images /\ state.page_images[page_num] # <<>>

\* some fetched page carries an image
HasImages == \E p \in DOMAIN state.page_images : state.page_images[p] # <<>>

\* the first fetched page, in fetched-page order, that carries an image
FirstImagePage ==
    state.fetched_pages[CHOOSE i \in 1..Len(state.fetched_pages) :
        /\ CarriesImage(state.fetched_pages[i])
        /\ \A j \in 1..(i - 1) : ~CarriesImage(state.fetched_pages[j])]

\* the context of the fetched page texts alone
TextOnlyContext ==
    Join(PageBlocks(state.fetched_pages, state.page_texts), "\n\n---\n\n")

\* C23: in SYNTHESIZE the only image sent to the vision capability is the first
\* image of the first fetched page that carries one, in at most one vision
\* request; when that request fails the context stays text-only.
C23_OneVisionRequest ==
    hist.answer_runs = 1 =>
        /\ Len(hist.vision_calls) <= 1
        /\ HasImages =>
              hist.vision_calls = <<state.page_images[FirstImagePage][1]>>
        /\ ~HasImages => hist.vision_calls = <<>>
        /\ \/ hist.combined_text = TextOnlyContext
           \/ /\ HasImages
              /\ hist.combined_text = TextOnlyContext
                    \o "\n\n[Image Analysis from Page " \o IntToStr(FirstImagePage)
                    \o "]\nvision response"

\* ---------------------------------------------------------------------------
\* The batches of one indexing run, on documents of more sections

\* the most pages (sections, with chunk size 1) of a document whose batches
\* are followed
MaxBatchSections == 5
\* the largest indexing concurrency
MaxBatchConcurrent == 3
\* the largest chunk size of a batched run
MaxBatchChunk == 2

\* index_pdf, lines 601-621, has found no usable record and entered the
\* indexing graph
InitBatch ==
    /\ settings \in [router_max_sections : {[kind |-> "absent"]},
                     indexing_concurrent : 1..MaxBatchConcurrent,
                     chunk_size : 1..MaxBatchChunk]
    /\ \E n \in 1..MaxBatchSections :
          metadata = get_pdf_metadata([version |-> 1, total_pages |-> n],
                                      settings.chunk_size)
    /\ section_summaries = [loaded |-> FALSE]
    /\ cache_file = NoCacheFile
    /\ state = InitialState
    /\ pc = "idle"
    /\ hist = NoHist
    /\ asked = 0
    /\ fx = IdleFetch
    /\ gx = IdleGateway
    /\ ix = [pc |-> "summarizing", fresh |-> FALSE, calls |-> 1, force |-> FALSE,
             i |-> 0, inflight |-> {}, results |-> EmptyDict, summaries |-> <<>>,
             requests |-> 0, failed |-> EmptyDict, sleeps |-> 0,
             start_cache |-> CacheKey(NoCacheFile),
             call_hash |-> metadata.file_hash,
             prev |-> NoCall, completed |-> NoCall]

NextBatch ==
    \/ BatchStart
    \/ SectionDone
    \/ BatchEnd
    \/ IndexFinish

SpecBatch == InitBatch /\ [][NextBatch]_vars

\* C24: with indexing concurrency K never more than K section summarizations
\* are in flight (one with K = 1), whatever the number of sections; while a
\* batch is in flight every section before it has completed and its summary is
\* kept, and a cooldown has followed each earlier batch.
C24_AtMostKInFlight ==
    /\ Cardinality(ix.inflight) <= settings.indexing_concurrent
    /\ ix.pc = "batch" =>
          /\ ix.inflight \subseteq ix.i..(metadata.total_sections - 1)
          /\ Len(ix.summaries) = ix.i
          /\ ix.sleeps = ix.i \div settings.indexing_concurrent

\* the second batch of two sections is in flight, with more sections to come
C24_Witness ==
    /\ settings.indexing_concurrent = 2
    /\ metadata.total_sections = 5
    /\ ix.pc = "batch"
    /\ ix.i = 2
    /\ ix.inflight = {2, 3}
    /\ ix.sleeps = 1

\* ---------------------------------------------------------------------------
\* A gateway request on the event loop, next to another workflow of the loop.
\* gx.thread says whether the loop's thread is free to run other coroutines
\* ("free": the request is suspended in an await) or held by the request
\* ("held": it is inside a blocking call); gx.other counts the steps the other
\* workflow has made.

\* the steps the other workflow of the loop has to make
MaxOtherSteps == 2

InitLoop ==
    /\ settings = [router_max_sections |-> [kind |-> "absent"],
                   indexing_concurrent |-> 1, chunk_size |-> 1]
    /\ metadata = get_pdf_metadata([version |-> 1, total_pages |-> 1], 1)
    /\ section_summaries = [loaded |-> FALSE]
    /\ cache_file = NoCacheFile
    /\ state = InitialState
    /\ pc = "idle"
    /\ hist = NoHist
    /\ asked = 0
    /\ fx = IdleFetch
    /\ ix = IdleIndex
    /\ \E outs \in AttemptOutcomes :
          gx = [pc |-> "ready", fn |-> None, outs |-> outs, attempt |-> 0,
                thread |-> "free", other |-> 0]

\* a node calls the gateway: generate_text_async awaits client.post (client.py
\* line 235), answer_generator_node calls the synchronous generate_with_image
\* (graph.py line 368), whose httpx.post (client.py line 104) holds the thread
CallGateway ==
    /\ gx.pc = "ready"
    /\ \E fn \in {"generate_text_async", "generate_with_image"} :
          gx' = [gx EXCEPT !.pc = "sending", !.fn = fn,
                           !.thread = IF fn = "generate_with_image"
                                      THEN "held" ELSE "free"]
    /\ UNCHANGED <<settings, metadata, section_summaries, cache_file, state, pc,
                   hist, asked, fx, ix>>

\* the attempt in progress comes to its outcome: the request returns, raises,
\* or goes to sleep before the next attempt, with asyncio.sleep in
\* generate_text_async (lines 246, 255) and time.sleep in
\* _make_request_with_retry (lines 117, 123)
AttemptEnds ==
    /\ gx.pc = "sending"
    /\ LET o == gx.outs[gx.attempt + 1]
           retried == \/ o = "429" /\ gx.attempt # GatewayRetries
                      \/ o = "5xx" /\ gx.attempt < GatewayRetries
       IN  gx' = IF o = "ok" THEN [gx EXCEPT !.pc = "done", !.thread = "free"]
                 ELSE IF retried THEN [gx EXCEPT !.pc = "backoff"]
                 ELSE [gx EXCEPT !.pc = "raised", !.thread = "free"]
    /\ UNCHANGED <<settings, metadata, section_summaries, cache_file, state, pc,
                   hist, asked, fx, ix>>

\* the sleep is over and the next attempt is sent
BackoffEnds ==
    /\ gx.pc = "backoff"
    /\ gx' = [gx EXCEPT !.pc = "sending", !.attempt = @ + 1]
    /\ UNCHANGED <<settings, metadata, section_summaries, cache_file, state, pc,
                   hist, asked, fx, ix>>

\* another workflow of the same event loop runs one of its steps
OtherWorkflow ==
    /\ gx.pc # "off"
    /\ gx.thread = "free"
    /\ gx.other < MaxOtherSteps
    /\ gx' = [gx EXCEPT !.other = @ + 1]
    /\ UNCHANGED <<settings, metadata, section_summaries, cache_file, state, pc,
                   hist, asked, fx, ix>>

NextLoop ==
    \/ CallGateway
    \/ AttemptEnds
    \/ BackoffEnds
    \/ OtherWorkflow

SpecLoop == InitLoop /\ [][NextLoop]_vars

\* C25: a gateway request, text or vision, that is under way or waiting to
\* retry never keeps the other workflows of the scheduler from running.
C25_BackoffYields ==
    gx.pc \in {"sending", "backoff"} => gx.thread = "free"

\* ---------------------------------------------------------------------------
\* What index_pdf returns and what the cache holds

\* the last index_pdf call returned the summaries of an indexing run
ReturnedFromRun == ix.completed.some /\ ~ix.completed.hit

\* C26: whenever index() returns the summaries of an indexing run (cache miss
\* or forced re-index), the cache record of the document holds that sequence.
C26_ReturnedRunIsPersisted ==
    ReturnedFromRun =>
        /\ cache_file.kind = "record"
        /\ cache_file.file_hash = ix.completed.file_hash
        /\ cache_file.summaries = ix.completed.summaries

\* ---------------------------------------------------------------------------
\* The sections of a document

\* fault variant of get_all_sections: the start page is left 0-indexed
get_all_sections_zero_indexed(doc, chunk_size) ==
    LET md == get_pdf_metadata(doc, chunk_size)
    IN  [k \in 1..md.total_sections |->
            [section_id |-> k,
             page_range |-> <<(k - 1) * chunk_size,
                              Min(k * chunk_size, md.total_pages)>>,
             page_count |-> Min(k * chunk_size, md.total_pages)
                                - (k - 1) * chunk_size + 1]]

\* PDFProcessor.get_all_sections, lines 264-277; k is i + 1
get_all_sections(doc, chunk_size) ==
    LET md == get_pdf_metadata(doc, chunk_size)
    IN  [k \in 1..md.total_sections |->
            [section_id |-> k,
             page_range |-> <<(k - 1) * chunk_size + 1,
                              Min(k * chunk_size, md.total_pages)>>,
             page_count |-> Min(k * chunk_size, md.total_pages)
                                - ((k - 1) * chunk_size + 1) + 1]]

\* get_section_breakdown, lines 282-288: one line for a section; k is i + 1
BreakdownLine(k, md) ==
    LET start_page == (k - 1) * md.chunk_size + 1
        end_page == IF k = md.total_sections THEN md.total_pages
                    ELSE Min(k * md.chunk_size, md.total_pages)
    IN  "  Section " \o IntToStr(k) \o ": Pages " \o IntToStr(start_page)
            \o "-" \o IntToStr(end_page)

\* get_section_breakdown, lines 278-290
get_section_breakdown(md) ==
    LET lines == [k \in 1..md.total_sections |-> BreakdownLine(k, md)]
    IN  IF lines # <<>> THEN Join(lines, "\n") ELSE "No sections available"

\* the most pages and the largest chunk size sections are computed for
MaxSectionPages == 25
MaxSectionChunk == 10

\* a document of any number of pages, none included, and a chunk size
InitSections ==
    /\ settings \in [router_max_sections : {[kind |-> "absent"]},
                     indexing_concurrent : {1}, chunk_size : 1..MaxSectionChunk]
    /\ \E n \in 0..MaxSectionPages :
          metadata = get_pdf_metadata([version |-> 1, total_pages |-> n],
                                      settings.chunk_size)
    /\ section_summaries = [loaded |-> FALSE]
    /\ cache_file = NoCacheFile
    /\ state = InitialState
    /\ pc = "idle"
    /\ hist = NoHist
    /\ asked = 0
    /\ fx = IdleFetch
    /\ gx = IdleGateway
    /\ ix = [pc |-> "sections", listed |-> FALSE, sections |-> <<>>,
             rendered |-> FALSE, breakdown |-> ""]

\* the extractor lists the sections of the document
GetAllSections ==
    /\ ix.pc = "sections"
    /\ ~ix.listed
    /\ ix' = [ix EXCEPT
          !.listed = TRUE,
          !.sections = get_all_sections(
              [version |-> 1, total_pages |-> metadata.total_pages],
              settings.chunk_size)]
    /\ UNCHANGED <<settings, metadata, section_summaries, cache_file, state, pc,
                   hist, asked, fx, gx>>

\* the breakdown for the model is rendered from the metadata
GetSectionBreakdown ==
    /\ ix.pc = "sections"
    /\ ~ix.rendered
    /\ ix' = [ix EXCEPT !.rendered = TRUE,
                        !.breakdown = get_section_breakdown(metadata)]
    /\ UNCHANGED <<settings, metadata, section_summaries, cache_file, state, pc,
                   hist, asked, fx, gx>>

NextSections == GetAllSections \/ GetSectionBreakdown

SpecSections == InitSections /\ [][NextSections]_vars

\* ceil(total_pages / chunk_size)
CeilDiv(total_pages, chunk_size) ==
    CHOOSE n \in 0..total_pages :
        n * chunk_size >= total_pages /\ (n = 0 \/ (n - 1) * chunk_size < total_pages)

\* the breakdown text of a list of sections
RenderedRanges(sections) ==
    IF sections = <<>> THEN "No sections available"
    ELSE Join([k \in 1..Len(sections) |->
                  "  Section " \o IntToStr(sections[k].section_id) \o ": Pages "
                      \o IntToStr(sections[k].page_range[1]) \o "-"
                      \o IntToStr(sections[k].page_range[2])], "\n")

\* C27: for every chunk_size > 0 and total_pages >= 0 the sections are
\* ceil(total_pages / chunk_size) contiguous, non-overlapping, 1-indexed page
\* ranges whose union is [1, total_pages], and the breakdown sent to the model
\* shows the same ranges as the extractor computes.
C27_SectionsPartitionPages ==
    /\ ix.listed =>
          LET s == ix.sections
              n == Len(s)
          IN  /\ n = CeilDiv(metadata.total_pages, metadata.chunk_size)
              /\ n = metadata.total_sections
              /\ \A k \in 1..n :
                    /\ s[k].section_id = k
                    /\ s[k].page_range[1] <= s[k].page_range[2]
                    /\ s[k].page_range[1] = IF k = 1 THEN 1
                                            ELSE s[k - 1].page_range[2] + 1
              /\ n > 0 => s[n].page_range[2] = metadata.total_pages
              /\ UNION {s[k].page_range[1]..s[k].page_range[2] : k \in 1..n}
                    = 1..metadata.total_pages
    /\ (ix.listed /\ ix.rendered) => ix.breakdown = RenderedRanges(ix.sections)

\* 25 pages in chunks of 10: the sections [1,10], [11,20], [21,25], listed and
\* rendered
C27_Witness ==
    /\ metadata.total_pages = 25
    /\ metadata.chunk_size = 10
    /\ ix.listed /\ ix.rendered
    /\ [k \in 1..Len(ix.sections) |-> ix.sections[k].page_range]
          = <<(<<1, 10>>), (<<11, 20>>), (<<21, 25>>)>>
    /\ ix.breakdown
          = "  Section 1: Pages 1-10\n  Section 2: Pages 11-20\n  Section 3: Pages 21-25"

\* ---------------------------------------------------------------------------
\* Questions on an agent that indexes on demand: ask() calls index_pdf() when
\* no summaries are loaded, then enters the question graph.

\* the questions asked on the agent
MaxAskCalls == 2
\* the documents asked about have 1..MaxAskPages pages
MaxAskPages == 1

\* PDFQAAgent.__init__: nothing is loaded; the cache may hold the record of an
\* earlier process
InitAsk ==
    /\ settings = [router_max_sections |-> [kind |-> "int", value |-> 1],
                   indexing_concurrent |-> 1, chunk_size |-> 1]
    /\ \E n \in 1..MaxAskPages :
          metadata = get_pdf_metadata([version |-> 1, total_pages |-> n],
                                      settings.chunk_size)
    /\ section_summaries = [loaded |-> FALSE]
    /\ cache_file \in
          {NoCacheFile,
           save_summaries_to_cache(NoCacheFile, metadata,
               GoodSummaries(metadata, metadata.total_sections), "written")}
    /\ state = InitialState
    /\ pc = "idle"
    /\ hist = NoHist
    /\ asked = 0
    /\ fx = IdleFetch
    /\ gx = IdleGateway
    /\ ix = [pc |-> "idle", fresh |-> TRUE, calls |-> 0, force |-> FALSE, i |-> 0,
             inflight |-> {}, results |-> EmptyDict, summaries |-> <<>>,
             requests |-> 0, failed |-> EmptyDict, sleeps |-> 0,
             start_cache |-> CacheKey(NoCacheFile), call_hash |-> "",
             prev |-> NoCall, completed |-> NoCall]

\* ask(), lines 642-643: index_pdf() is called when _section_summaries is None
AskCall ==
    /\ pc \in {"idle", "END", "raised"}
    /\ asked < MaxAskCalls
    /\ asked' = asked + 1
    /\ hist' = NoHist
    /\ IF section_summaries.loaded
       THEN /\ state' = initial_state(state)
            /\ pc' = "router"
            /\ UNCHANGED <<section_summaries, ix>>
       ELSE /\ index_pdf_begin(FALSE)
            /\ pc' = "indexing"
            /\ state' = state
    /\ UNCHANGED <<settings, metadata, cache_file, fx, gx>>

\* ask(), lines 643-665: index_pdf() has returned and the question graph is
\* entered with a fresh state, or index_pdf() raised and so does ask()
AskEnter ==
    /\ pc = "indexing"
    /\ ix.pc \in {"idle", "raised"}
    /\ IF ix.pc = "idle"
       THEN state' = initial_state(state) /\ pc' = "router"
       ELSE state' = state /\ pc' = "raised"
    /\ UNCHANGED <<settings, metadata, section_summaries, cache_file, hist, asked,
                   fx, ix, gx>>

NextAsk ==
    \/ AskCall
    \/ BatchStart
    \/ SectionDone
    \/ BatchEnd
    \/ IndexFinish
    \/ AskEnter
    \/ Router
    \/ Fetcher
    \/ ErrorCorrection
    \/ AnswerGenerator

SpecAsk == InitAsk /\ [][NextAsk]_vars

\* C28: over the ask() calls on one agent index_pdf, and with it the indexing
\* workflow and the reading of the cache, runs at most once.
C28_IndexAtMostOnce == ix.calls <= 1

\* ---------------------------------------------------------------------------
\* The state of a question

\* C29: every ask() starts from a fresh query state (retry_count 0, no
\* fetch_error, no predicted or fetched pages, no page texts or images), and no
\* step of a question changes what the next question reads besides it (the
\* settings, the metadata, the loaded summaries), so no question depends on the
\* retries, errors or fetched content of an earlier one.
C29_FreshStatePerQuestion ==
    [][/\ asked' # asked =>
             /\ state'.retry_count = 0
             /\ state'.fetch_error = None
             /\ state'.predicted_pages = <<>>
             /\ state'.fetched_pages = <<>>
             /\ state'.page_texts = EmptyDict
             /\ state'.page_images = EmptyDict
             /\ state'.answer = ""
             /\ state'.sources = <<>>
             /\ hist' = NoHist
       /\ UNCHANGED <<settings, metadata, section_summaries>>]_vars

\* the previous question ended after retries and with fetched content
QuestionLeftTraces ==
    /\ pc = "END"
    /\ state.retry_count > 0
    /\ state.fetched_pages # <<>>
    /\ state.page_texts # EmptyDict

\* a question that left retries and fetched content behind, with another
\* question still to be asked
C29_Witness == QuestionLeftTraces /\ asked < MaxQuestions

-----------------------------------------------------------------------------
(* The response normalizer alone: safe_parse_json on every model text.     *)

\* What json.loads can come to on one part of a text: it raises
\* JSONDecodeError, it raises RecursionError, it returns the object written
\* there, or (on a part that need not start with "{") it returns an array
LoadsOutcomes(name) ==
    {Unparsed, Overflows,
     Parsed(JsonDict([summary |-> <<name>>, keywords |-> <<"term">>,
                      insights |-> <<>>]))}
    \cup (IF name = "braces" THEN {} ELSE {Parsed(JsonList)})

\* The model texts: the blank ones, on which nothing is parsed, and every
\* combination of outcomes of the four json.loads calls
ModelTexts ==
    {BlankText} \cup
    [blank : {FALSE}, whole : LoadsOutcomes("whole"),
     fence_json : LoadsOutcomes("fence_json"), fence : LoadsOutcomes("fence"),
     braces : LoadsOutcomes("braces")]

InitParse ==
    /\ settings \in [router_max_sections : {[kind |-> "absent"]},
                     indexing_concurrent : {1}, chunk_size : {1}]
    /\ metadata = get_pdf_metadata([version |-> 1, total_pages |-> 1], 1)
    /\ section_summaries = [loaded |-> FALSE]
    /\ cache_file = NoCacheFile
    /\ state = InitialState
    /\ pc = "idle"
    /\ hist = NoHist
    /\ asked = 0
    /\ fx = IdleFetch
    /\ ix = IdleIndex
    /\ \E t \in ModelTexts : gx = [pc |-> "text", response_text |-> t]

\* safe_parse_json(response_text) is called and returns or raises
SafeParseJson ==
    /\ gx.pc = "text"
    /\ gx' = [pc |-> "parsed", response_text |-> gx.response_text,
              result |-> safe_parse_json(gx.response_text)]
    /\ UNCHANGED <<settings, metadata, section_summaries, cache_file, state, pc,
                   hist, asked, fx, ix>>

NextParse == SafeParseJson

SpecParse == InitParse /\ [][NextParse]_vars

\* the result of the first tier that parses, and the sentinel when none does
FirstTierThatParses(t) ==
    IF t.whole.parsed THEN t.whole.value
    ELSE IF t.fence_json.parsed THEN t.fence_json.value
    ELSE IF t.fence.parsed THEN t.fence.value
    ELSE IF t.braces.parsed THEN t.braces.value
    ELSE Sentinel(IF t.blank THEN "Empty response"
                  ELSE "Failed to parse LLM response")

\* C30: safe_parse_json never raises and always returns a mapping: for every
\* model text it returns the result of the first tier that parses (whole text,
\* then fenced code block, then the substring between the first "{" and the
\* last "}"), and the sentinel mapping with empty keywords and insights when
\* no tier parses.
C30_AlwaysReturnsMapping ==
    gx.pc = "parsed" =>
        /\ gx.result.type # "raised"
        /\ gx.result.type = "dict"
        /\ gx.result = FirstTierThatParses(gx.response_text)

-----------------------------------------------------------------------------
(* One structured request alone: generate_json_async on every sequence of  *)
(* replies to its text requests.                                           *)

\* a JSON object whose summary list is empty
EmptySummaryText ==
    [blank |-> FALSE,
     whole |-> Parsed(JsonDict([summary |-> <<>>, keywords |-> <<>>,
                                insights |-> <<>>])),
     fence_json |-> Unparsed, fence |-> Unparsed, braces |-> Unparsed]

\* What one text request of the structured request comes to: the gateway
\* raised, or it returned a text (an object, a fenced object, garbage, an empty
\* content, an array, a text nested too deep, an object with an empty summary)
JsonReplies ==
    {FailedReply} \cup
    {[ok |-> TRUE, text |-> t] :
        t \in {GoodJsonText, FencedJsonText, GarbageText, BlankText, ListJsonText,
               DeepJsonText, EmptySummaryText}}

InitJson ==
    /\ settings \in [router_max_sections : {[kind |-> "absent"]},
                     indexing_concurrent : {1}, chunk_size : {1}]
    /\ metadata = get_pdf_metadata([version |-> 1, total_pages |-> 1], 1)
    /\ section_summaries = [loaded |-> FALSE]
    /\ cache_file = NoCacheFile
    /\ state = InitialState
    /\ pc = "idle"
    /\ hist = NoHist
    /\ asked = 0
    /\ fx = IdleFetch
    /\ ix = IdleIndex
    /\ \E replies \in [1..(JsonRetries + 1) -> JsonReplies] :
          gx = [pc |-> "json", replies |-> replies]

\* generate_json_async is called and returns
GenerateJson ==
    /\ gx.pc = "json"
    /\ gx' = [pc |-> "returned", replies |-> gx.replies,
              returned |-> generate_json_async(gx.replies)]
    /\ UNCHANGED <<settings, metadata, section_summaries, cache_file, state, pc,
                   hist, asked, fx, ix>>

NextJson == GenerateJson

SpecJson == InitJson /\ [][NextJson]_vars

\* the normalizer's sentinels
ParseSentinels == {Sentinel("Empty response"), Sentinel("Failed to parse LLM response")}

\* the attempt did not come to a non-sentinel parse: the request raised, the
\* normalizer raised or returned a sentinel, or reading the parse raised
AttemptFailed(reply) ==
    \/ ~reply.ok
    \/ LET result == safe_parse_json(reply.text)
       IN  \/ result.type # "dict"
           \/ result \in ParseSentinels
           \/ result.items.summary = <<>>

\* the attempts made before the first one that came to a non-sentinel parse
FailedPrefix(replies) ==
    {n \in 0..Len(replies) : \A k \in 1..n : AttemptFailed(replies[k])}

FailedAttempts(replies) ==
    CHOOSE n \in FailedPrefix(replies) : \A m \in FailedPrefix(replies) : m <= n

\* a sentinel of the normalizer or an "Error: <message>" mapping
IsSentinelOrError(d) ==
    /\ d.keywords = <<>>
    /\ d.insights = <<>>
    /\ Len(d.summary) = 1
    /\ \/ JsonDict(d) \in ParseSentinels
       \/ StartsWithAt(d.summary[1], 1, "Error: ")

\* C32: one structured request issues at most retries+1 = 3 text requests: it
\* re-requests whenever the normalizer returned a sentinel (unparseable or
\* empty model text) or the request raised, returns the first non-sentinel
\* parse, and after the last attempt returns a sentinel or an "Error: ..."
\* mapping instead of raising.
C32_RetriesUntilParsed ==
    gx.pc = "returned" =>
        LET failed == FailedAttempts(gx.replies)
        IN  /\ gx.returned.requests <= JsonRetries + 1
            /\ failed <= JsonRetries =>
                  /\ gx.returned.requests = failed + 1
                  /\ JsonDict(gx.returned.result) =
                         safe_parse_json(gx.replies[failed + 1].text)
            /\ failed = JsonRetries + 1 =>
                  /\ gx.returned.requests = JsonRetries + 1
                  /\ IsSentinelOrError(gx.returned.result)

\* the pages of a list, as a set
PageSet(pages) == {pages[i] : i \in 1..Len(pages)}

\* the step is an execution of FETCH
FetchRuns == hist'.fetcher_runs = hist.fetcher_runs + 1

\* C33: at SYNTHESIZE and at DONE, fetched_pages, page_texts and page_images
\* hold only the result of the most recent FETCH: each FETCH stores exactly
\* what fetch_pages returned for the pages predicted then (nothing of earlier
\* attempts is merged in), no other stage of the question changes the three,
\* the keys of page_texts are the fetched pages, the keys of page_images are
\* among them, and the returned sources equal fetched_pages.
C33_OnlyLastFetch ==
    /\ [](pc \in {"answer_generator", "END"} =>
            /\ DOMAIN state.page_texts = PageSet(state.fetched_pages)
            /\ DOMAIN state.page_images \subseteq PageSet(state.fetched_pages)
            /\ pc = "END" => state.sources = state.fetched_pages)
    /\ [][/\ FetchRuns =>
               \E outcomes \in [1..Len(state.predicted_pages) -> ExtractOutcomes] :
                  LET result == fetch_pages(state.predicted_pages, metadata, outcomes)
                  IN  /\ state'.fetched_pages = result.fetched_pages
                      /\ state'.page_texts = result.texts
                      /\ state'.page_images = result.images
          /\ (pc \in {"error_correction", "answer_generator"}) =>
               UNCHANGED <<state.fetched_pages, state.page_texts,
                           state.page_images>>]_vars

\* a question done after more than one FETCH, the last one having fetched
\* pages and an image
C33_Witness ==
    /\ pc = "END"
    /\ hist.fetcher_runs >= 2
    /\ state.fetched_pages # <<>>
    /\ state.sources = state.fetched_pages
    /\ DOMAIN state.page_images # {}

\* C34: when the gateway call of ERROR_CORRECT fails, the stage changes nothing
\* but retry_count: predicted_pages, fetch_error, fetched_pages, page_texts and
\* page_images (and every other field) are left as they were and FETCH is
\* next, so it requests exactly the pages of the failed fetch.
C34_FailedCorrectionKeepsPages ==
    [][(pc = "error_correction" /\ hist'.correction_gw = "failed") =>
           /\ state' = [state EXCEPT !.retry_count = state.retry_count + 1]
           /\ pc' = "fetcher"]_vars

\* ERROR_CORRECT has just run with a failed gateway call, on a fetch of more
\* than one page
C34_Witness ==
    /\ pc = "fetcher"
    /\ hist.correction_gw = "failed"
    /\ state.fetch_error # None
    /\ Len(state.predicted_pages) > 1
    /\ state.retry_count >= 1

\* C35: for a document of at least one page FETCH is never executed with an
\* empty page list: predicted_pages is non-empty after ROUTE, whatever the
\* model answered and whatever the gateway did, and after every ERROR_CORRECT.
C35_FetchListNonEmpty ==
    (pc = "fetcher" /\ metadata.total_pages >= 1) => state.predicted_pages # <<>>

\* FETCH is about to run on the fallback page after a correction that named no
\* valid page
C35_Witness ==
    /\ pc = "fetcher"
    /\ hist.correction_runs >= 1
    /\ hist.correction_response \in {"none", "[7]"}
    /\ state.predicted_pages = <<1>>

\* the pages of section k (1-based) of a document cut into chunks
SectionRange(k, md) ==
    <<(k - 1) * md.chunk_size + 1,
      IF k * md.chunk_size <= md.total_pages THEN k * md.chunk_size
      ELSE md.total_pages>>

\* C36: an indexing run returns exactly total_sections summaries, the summary
\* at position i (0-based) having section_id i+1 and the page range of section
\* i+1, in the sequential mode and in the batched concurrent mode and for
\* every completion order of the sections inside a batch.
C36_SummariesInSectionOrder ==
    section_summaries.loaded =>
        /\ Len(section_summaries.value) = metadata.total_sections
        /\ \A i \in 0..(metadata.total_sections - 1) :
              /\ section_summaries.value[i + 1].section_id = i + 1
              /\ section_summaries.value[i + 1].page_range =
                     SectionRange(i + 1, metadata)

\* a returned run of three sections in batches of two, the last section
\* shorter than a chunk
C36_Witness ==
    /\ section_summaries.loaded
    /\ settings.indexing_concurrent = 2
    /\ settings.chunk_size = 2
    /\ metadata.total_pages = 5
    /\ Len(section_summaries.value) = 3

\* C37: whenever index_pdf returns, on a cache hit as well as after an
\* indexing run, the returned sequence has exactly metadata.total_sections
\* entries and the page range of each entry is the range of that section under
\* the current chunk_size, also when the chunk size was changed since the
\* cache record was written.
C37_ReturnedMatchesChunking ==
    LET returned == section_summaries.value
    IN  section_summaries.loaded =>
            /\ Len(returned) = metadata.total_sections
            /\ \A k \in 1..Len(returned) :
                  returned[k].page_range = SectionRange(k, metadata)

\* some section of the sequence carries an "Error: <message>" or a
\* parse-failure summary
HasDegradedSection(summaries) ==
    \E k \in 1..Len(summaries) :
        /\ summaries[k].summary # <<>>
        /\ \/ StartsWithAt(summaries[k].summary[1], 1, "Error: ")
           \/ Contains(summaries[k].summary[1], "Failed to parse")

\* the call that has returned is a non-forced one on the document of the
\* indexing run that returned before it, and that run had a degraded section
LaterCallAfterDegradedRun ==
    /\ ix.completed.some
    /\ ~ix.completed.force
    /\ ix.prev.some
    /\ ~ix.prev.hit
    /\ HasDegradedSection(ix.prev.summaries)
    /\ ix.completed.file_hash = ix.prev.file_hash

\* C38: an indexing run in which some section degraded to an "Error: ..." or
\* parse-failure summary still persists the whole sequence, so every later
\* non-forced index_pdf of the unchanged document returns that degraded
\* sequence from the cache without asking the gateway again.
C38_DegradedRunIsCached ==
    /\ (ix.completed.some /\ ~ix.completed.hit /\ HasDegradedSection(ix.completed.summaries)) =>
          /\ cache_file.kind = "record"
          /\ cache_file.file_hash = ix.completed.file_hash
          /\ cache_file.summaries = ix.completed.summaries
    /\ LaterCallAfterDegradedRun =>
          /\ ix.completed.hit
          /\ ix.completed.requests = 0
          /\ ix.completed.summaries = ix.prev.summaries

\* the text requests a step of the question makes
TextRequestsOfStep == hist'.text_requests - hist.text_requests

\* C39: a single ask() on an indexed document issues at most 5 text requests
\* to the gateway: exactly 1 in ROUTE, at most 1 in each ERROR_CORRECT
\* execution, of which there are at most 3, and exactly 1 in SYNTHESIZE.
C39_AtMostFiveTextRequests ==
    /\ [](hist.text_requests <= 5 /\ hist.correction_runs <= MaxRetries)
    /\ [][/\ hist'.router_runs = hist.router_runs + 1 => TextRequestsOfStep = 1
          /\ hist'.correction_runs = hist.correction_runs + 1 =>
                TextRequestsOfStep \in {0, 1}
          /\ hist'.fetcher_runs = hist.fetcher_runs + 1 => TextRequestsOfStep = 0
          /\ hist'.answer_runs = hist.answer_runs + 1 => TextRequestsOfStep = 1]_vars

\* a cache file that cannot be parsed, or a record of another document hash
UnusableRecord(key, file_hash) ==
    \/ key.kind = "corrupt"
    \/ key.kind = "record" /\ key.file_hash # file_hash

\* C40: a cache record that cannot be read or parsed, or whose stored hash
\* differs from the document's hash, is treated as a cache miss: index_pdf
\* does not raise because of it but enters the indexing run, the run is a full
\* pass over the sections, and when the call has returned the record has been
\* overwritten with the run's summaries under the document's hash.
C40_BadRecordIsMiss ==
    /\ [][(ix'.calls = ix.calls + 1
             /\ UnusableRecord(CacheKey(cache_file), metadata.file_hash)) =>
             ix'.pc = "summarizing"]_vars
    /\ []((ix.completed.some /\ UnusableRecord(ix.start_cache, ix.call_hash)) =>
             /\ ~ix.completed.hit
             /\ Len(ix.completed.summaries) = ix.completed.sections
             /\ cache_file.kind = "record"
             /\ cache_file.file_hash = ix.completed.file_hash
             /\ cache_file.summaries = ix.completed.summaries)
=============================================================================
